---- MODULE Spec2Model ----
(***************************************************************************)
(* Self-Evolution skill hooks: the OnFileEdit hook (detect-modifications), *)
(* the PostToolUse hook (record-execution) and the SessionEnd hook         *)
(* (collect-feedback).                                                     *)
(*                                                                         *)
(* Representation.                                                         *)
(*  - A text (a JS string) is a sequence of one-character strings; NL is   *)
(*    the line feed.  A line is the sequence of its characters.            *)
(*  - A percentage that the code rounds to one decimal                     *)
(*    (Math.round(x * 10) / 10) is held as an integer number of TENTHS of  *)
(*    a percent: 33.3 is 333, 100 is 1000.                                 *)
(*  - A JS value that may be undefined / NaN is held as a sequence of at   *)
(*    most one element: <<>> is undefined (or NaN), <<v>> is the value v.  *)
(***************************************************************************)
EXTENDS Integers, Sequences, FiniteSets, TLC

VARIABLES
  ctx,            \* diff engine: the file-edit context handed to recordModification
  modification,   \* diff engine: <<>> or <<the record recordModification returned>>
  analysis,       \* diff engine: <<>> or <<the record analyzeModificationType returned>>
  dpc,            \* diff engine: "start" -> "recorded" -> "analyzed"
  filesModified,  \* session end: context.filesModified, with what each file holds
  modifications,  \* session end: the list detectUserModifications returned
  feedback,       \* session end: <<>> or <<the record analyzeModifications returned>>
  fpc,            \* session end: "start" -> "detected" -> "analyzed"
  call,           \* hooks: the invocation in flight (its hook, context, position, locals)
  outcome,        \* hooks: how the promise of the last finished invocation settled
  errorLog,       \* hooks: what the hooks' outer catch blocks passed to console.error
  invocations,    \* hooks: the number of invocations made so far
  modificationCache,  \* detect-modifications.js: the Map filePath -> history
  historyFiles,       \* CACHE_DIR/<hash>_history.json, per file path
  modificationFiles,  \* DATA_DIR (modifications): the records saved, by id
  executionFiles,     \* executions/<YYYY-MM>/<session_id>.json: the records saved
  executionIndex,     \* executions/index.json: its "executions" array
  tempEvalFile,       \* .temp_eval_input.json: <<>> or <<its content>>
  feedbackFiles,      \* DATA_DIR (feedback): <session>_feedback.json, by session id
  ratingFiles,        \* DATA_DIR (feedback): <session>_rating.json, by session id
  comparison,     \* the two diff functions applied to one pair of texts
  overlap,        \* the detectModifications invocations in flight at the same time
  weightTable,    \* weight optimizer: the persisted ElementWeight table
  pass,           \* weight optimizer: the optimization pass in progress
  miner,          \* pattern miner: the frequent-combination mining in progress
  transfer        \* transfer recommender: the transfer_knowledge call in progress

diffVars == <<ctx, modification, analysis, dpc>>
feedbackVars == <<filesModified, modifications, feedback, fpc>>
callVars == <<call, outcome, errorLog, invocations>>
detectStore == <<modificationCache, historyFiles, modificationFiles>>
executionStore == <<executionFiles, executionIndex, tempEvalFile>>
feedbackStore == <<feedbackFiles, ratingFiles>>
hookVars == <<callVars, detectStore, executionStore, feedbackStore>>
optimizerVars == <<weightTable, pass>>
learnVars == <<miner, transfer>>
restVars == <<comparison, overlap, optimizerVars, learnVars>>
vars == <<diffVars, feedbackVars, hookVars, restVars>>

\* The variables of a part of the system that a specification does not exercise.
DiffIdle == ctx = <<>> /\ modification = <<>> /\ analysis = <<>> /\ dpc = "idle"
FeedbackIdle ==
  filesModified = <<>> /\ modifications = <<>> /\ feedback = <<>> /\ fpc = "idle"
Idle == [hook |-> "none"]
HooksIdle ==
  /\ call = Idle /\ outcome = <<>> /\ errorLog = {} /\ invocations = 0
  /\ modificationCache = <<>> /\ historyFiles = <<>> /\ modificationFiles = <<>>
  /\ executionFiles = <<>> /\ executionIndex = <<>> /\ tempEvalFile = <<>>
  /\ feedbackFiles = <<>> /\ ratingFiles = <<>>
ComparisonIdle == comparison = <<>>
OverlapIdle == overlap = <<>>
OptimizerIdle == weightTable = <<>> /\ pass = <<>>
LearnIdle == miner = <<>> /\ transfer = <<>>
RestIdle == ComparisonIdle /\ OverlapIdle /\ OptimizerIdle /\ LearnIdle

\* ------------------------------------------------------------------ bounds
\* A small text has at most MaxChars characters.
MaxChars == 3
\* A session ends with at most MaxFiles modified files.
MaxFiles == 3
\* At most MaxInvocations hook invocations are made in one behaviour.
MaxInvocations == 2
\* MaxOverlap invocations of detectModifications are in flight at the same time.
MaxOverlap == 2
\* At most MaxPasses passes of the weight optimizer are committed.
MaxPasses == 2
\* The usage history mined has at most MaxTransactions records.
MaxTransactions == 3
\* A source domain has at most MaxPatterns success patterns.
MaxPatterns == 3

\* detect-modifications.js: MAX_CACHE_SIZE, and the history length kept per file.
MAX_CACHE_SIZE == 100
MaxHistory == 50
\* record-execution.js: the number of index entries kept.
MaxIndex == 1000

NL == "\n"
Chars == {"a", "b", NL}

\* ------------------------------------------------------------- JS helpers
Min(x, y) == IF x < y THEN x ELSE y
Max(x, y) == IF x > y THEN x ELSE y
Abs(x) == IF x < 0 THEN -x ELSE x

\* (mutant of MathRound) Math.floor in place of Math.round.
MathFloor(n, d) == n \div d

\* Math.round(n / d) for n >= 0, d > 0: halves round up.
MathRound(n, d) == (2 * n + d) \div (2 * d)

\* obj.name where obj may lack the property: undefined is <<>>.
Prop(obj, name) == IF name \in DOMAIN obj THEN <<obj[name]>> ELSE <<>>
\* x * k, x + y on JS numbers: NaN (<<>>) as soon as an operand is undefined.
JsTimes(x, k) == IF x = <<>> THEN <<>> ELSE <<x[1] * k>>
JsPlus(x, y) == IF x = <<>> \/ y = <<>> THEN <<>> ELSE <<x[1] + y[1]>>
\* x > y on JS numbers: false as soon as an operand is undefined or NaN.
JsGt(x, y) == x # <<>> /\ y # <<>> /\ x[1] > y[1]

\* String.prototype.split('\n'): the lines of a text, always at least one.
\* The text is split by halves (the pieces on either side of the cut are glued)
\* so that the evaluation depth stays logarithmic in the length of the text.
RECURSIVE SplitRange(_, _, _)
SplitRange(text, lo, hi) ==
  IF lo > hi THEN << <<>> >>
  ELSE IF lo = hi
       THEN IF text[lo] = NL THEN << <<>>, <<>> >> ELSE << <<text[lo]>> >>
       ELSE LET mid == (lo + hi) \div 2
                L == SplitRange(text, lo, mid)
                R == SplitRange(text, mid + 1, hi)
            IN  SubSeq(L, 1, Len(L) - 1) \o << L[Len(L)] \o R[1] >> \o Tail(R)

Split(text) == SplitRange(text, 1, Len(text))

\* -------------------------------------------------------------- diff engine
\* (mutant of DiffLoopBody) modifiedLines++ moved into the branch that opens a
\* region: runs are counted instead of lines.
DiffLoopBodyCountsRuns(beforeLines, afterLines, i, st) ==
  IF beforeLines[i + 1] # afterLines[i + 1]
  THEN IF st.currentRegion = <<>>
       THEN [modifiedLines |-> st.modifiedLines + 1,
             modifiedRegions |-> st.modifiedRegions,
             currentRegion |-> << [start |-> i, end |-> i, type |-> "modified"] >>]
       ELSE [st EXCEPT !.currentRegion = << [st.currentRegion[1] EXCEPT !.end = i] >>]
  ELSE IF st.currentRegion # <<>>
       THEN [st EXCEPT !.modifiedRegions = Append(@, st.currentRegion[1]),
                       !.currentRegion = <<>>]
       ELSE st

\* (mutant of DiffLoopBody) currentRegion = null forgotten after the push: the
\* pushed region stays open.
DiffLoopBodyKeepsRegion(beforeLines, afterLines, i, st) ==
  IF beforeLines[i + 1] # afterLines[i + 1]
  THEN [modifiedLines |-> st.modifiedLines + 1,
        modifiedRegions |-> st.modifiedRegions,
        currentRegion |->
          IF st.currentRegion = <<>>
          THEN << [start |-> i, end |-> i, type |-> "modified"] >>
          ELSE << [st.currentRegion[1] EXCEPT !.end = i] >>]
  ELSE IF st.currentRegion # <<>>
       THEN [st EXCEPT !.modifiedRegions = Append(@, st.currentRegion[1])]
       ELSE st

\* One iteration of the for loop of calculateDetailedDiff, at index i (0-based).
\* st = [modifiedLines, modifiedRegions, currentRegion]; currentRegion is <<>>
\* for null.
DiffLoopBody(beforeLines, afterLines, i, st) ==
  IF beforeLines[i + 1] # afterLines[i + 1]
  THEN [modifiedLines |-> st.modifiedLines + 1,
        modifiedRegions |-> st.modifiedRegions,
        currentRegion |->
          IF st.currentRegion = <<>>
          THEN << [start |-> i, end |-> i, type |-> "modified"] >>
          ELSE << [st.currentRegion[1] EXCEPT !.end = i] >>]
  ELSE IF st.currentRegion # <<>>
       THEN [modifiedLines |-> st.modifiedLines,
             modifiedRegions |-> Append(st.modifiedRegions, st.currentRegion[1]),
             currentRegion |-> <<>>]
       ELSE st

\* The iterations lo, lo+1, ..., hi-1 of the loop, in that order, from state st.
\* The range is halved only to keep the evaluation depth logarithmic; the test on
\* firstHalf (always true) makes the first half run before the second starts.
RECURSIVE DiffLoop(_, _, _, _, _)
DiffLoop(beforeLines, afterLines, lo, hi, st) ==
  IF lo >= hi THEN st
  ELSE IF hi = lo + 1 THEN DiffLoopBody(beforeLines, afterLines, lo, st)
  ELSE LET mid == (lo + hi) \div 2
           firstHalf == DiffLoop(beforeLines, afterLines, lo, mid, st)
       IN  IF firstHalf.modifiedLines >= 0
           THEN DiffLoop(beforeLines, afterLines, mid, hi, firstHalf)
           ELSE firstHalf

\* (mutant of RoundedChange) rounded to a whole percent: the * 10 and / 10 left out.
RoundedChangeWhole(changed, totalLines) ==
  IF totalLines > 0 THEN 10 * MathRound(100 * changed, totalLines) ELSE 0

\* Math.round(changePercentage * 10) / 10, in tenths of a percent, of
\* ((modifiedLines + Math.abs(added)) / totalLines) * 100.
RoundedChange(changed, totalLines) ==
  IF totalLines > 0 THEN MathRound(1000 * changed, totalLines) ELSE 0

calculateDetailedDiff(before, after) ==
  LET beforeLines == Split(before)
      afterLines == Split(after)
      added == Len(afterLines) - Len(beforeLines)
      removed == IF added < 0 THEN Abs(added) ELSE 0
      minLength == Min(Len(beforeLines), Len(afterLines))
      loop == DiffLoop(beforeLines, afterLines, 0, minLength,
                       [modifiedLines |-> 0, modifiedRegions |-> <<>>,
                        currentRegion |-> <<>>])
      closed == IF loop.currentRegion # <<>>
                THEN Append(loop.modifiedRegions, loop.currentRegion[1])
                ELSE loop.modifiedRegions
      regions ==
        IF added > 0
        THEN Append(closed, [start |-> Len(beforeLines),
                             end |-> Len(afterLines) - 1, type |-> "added"])
        ELSE IF removed > 0
             THEN Append(closed, [start |-> minLength,
                                  end |-> Len(beforeLines) - 1, type |-> "removed"])
             ELSE closed
      totalLines == Max(Len(beforeLines), Len(afterLines))
  IN  [added |-> Max(0, added),
       removed |-> removed,
       modified |-> loop.modifiedLines,
       changePercentage |-> RoundedChange(loop.modifiedLines + Abs(added), totalLines),
       regions |-> regions]

\* Session ids.  A session id found on an event context is the k-th id the host
\* hands out; an id made by generateSessionId (the date and four random bytes) is
\* fresh: n numbers the call that made it.  'unknown' is the default of line 99.
ContextSession(k) == [source |-> "context", n |-> k]
\* (mutant of generateSessionId) the random suffix left out: the id is the date.
generateSessionIdOfDay(n) == [source |-> "generated", n |-> 1]

generateSessionId(n) == [source |-> "generated", n |-> n]
UnknownSession == [source |-> "unknown", n |-> 0]
\* context.sessionId || 'unknown'
SessionOf(context) ==
  IF context.sessionId = <<>> THEN UnknownSession ELSE context.sessionId[1]

\* recordModification: the record built for one edit event, given the history of
\* the file (a sequence of [content, diff] entries) and a fresh id.
\* (mutant of PreviousContentOf) the history ignored: always the event's
\* previousContent.
PreviousContentOfEvent(context, history) == context.previousContent

PreviousContentOf(context, history) ==
  IF Len(history) > 0 THEN history[Len(history)].content ELSE context.previousContent

recordModification(context, history, id) ==
  LET previousContent == PreviousContentOf(context, history)
      currentContent == context.newContent
      diff == calculateDetailedDiff(previousContent, currentContent)
  IN  [id |-> id,
       file_path |-> context.filePath,
       skill_name |-> context.generatedBySkill,
       session_id |-> SessionOf(context),
       user_action |-> context.userAction,
       diff |-> [lines_added |-> diff.added,
                 lines_removed |-> diff.removed,
                 lines_modified |-> diff.modified,
                 change_percentage |-> diff.changePercentage,
                 affected_regions |-> diff.regions],
       content_snapshot |-> [before_length |-> Len(previousContent),
                             after_length |-> Len(currentContent),
                             before_lines |-> Len(Split(previousContent)),
                             after_lines |-> Len(Split(currentContent))]]

\* ---------------------------------------------------- modification classifier
\* (mutant of DegreeBand) the band boundaries compared with <= instead of <.
DegreeBandInclusive(changePercent) ==
  IF changePercent <= 20 THEN [category |-> "typo_fix", severity |-> "minor"]
  ELSE IF changePercent <= 100
       THEN [category |-> "minor_adjustment", severity |-> "minor"]
  ELSE IF changePercent <= 300
       THEN [category |-> "moderate_change", severity |-> "moderate"]
  ELSE [category |-> "major_rewrite", severity |-> "major"]

\* Step 1 of analyzeModificationType: the degree category and the severity for a
\* change percentage (in tenths of a percent).
DegreeBand(changePercent) ==
  IF changePercent < 20 THEN [category |-> "typo_fix", severity |-> "minor"]
  ELSE IF changePercent < 100
       THEN [category |-> "minor_adjustment", severity |-> "minor"]
  ELSE IF changePercent < 300
       THEN [category |-> "moderate_change", severity |-> "moderate"]
  ELSE [category |-> "major_rewrite", severity |-> "major"]

\* Step 2: the operation category and its reasons.  The code reads diff.added,
\* diff.removed and diff.modified of modification.diff.
OperationTag(diff) ==
  LET added == Prop(diff, "added")
      removed == Prop(diff, "removed")
      modified == Prop(diff, "modified")
  IN  IF JsGt(added, JsTimes(removed, 2))
      THEN [categories |-> <<"content_addition">>,
            reasons |-> <<"feature_enhancement", "missing_functionality">>]
      ELSE IF JsGt(removed, JsTimes(added, 2))
           THEN [categories |-> <<"content_removal">>,
                 reasons |-> <<"code_simplification", "remove_redundancy">>]
      ELSE IF JsGt(modified, JsPlus(added, removed))
           THEN [categories |-> <<"content_modification">>,
                 reasons |-> <<"logic_correction", "style_adjustment">>]
      ELSE [categories |-> <<>>, reasons |-> <<>>]

\* Step 3: the region-spread category for a number of affected regions.
RegionTag(regionCount) ==
  IF regionCount = 1 THEN "focused_change"
  ELSE IF regionCount <= 3 THEN "multi_region_change"
  ELSE "scattered_changes"

\* Step 4: the reasons inferred from the action and the generator.
InferredReasons(m) ==
  (IF m.user_action = "paste" THEN <<"external_code_integration">> ELSE <<>>)
  \o (IF m.diff.change_percentage > 500 /\ m.skill_name = "ui-ux-pro-max"
      THEN <<"style_preference_mismatch">> ELSE <<>>)

analyzeModificationType(m) ==
  LET band == DegreeBand(m.diff.change_percentage)
      op == OperationTag(m.diff)
  IN  [modification_id |-> m.id,
       categories |-> <<band.category>> \o op.categories
                      \o <<RegionTag(Len(m.diff.affected_regions))>>,
       severity |-> band.severity,
       likely_reason |-> op.reasons \o InferredReasons(m)]

\* ------------------------------------------------------------ input domains
RECURSIVE SeqsUpTo(_, _)
SeqsUpTo(S, n) ==
  IF n = 0 THEN {<<>>}
  ELSE LET shorter == SeqsUpTo(S, n - 1)
       IN  shorter \cup {Append(s, c) : s \in {t \in shorter : Len(t) = n - 1}, c \in S}

\* Every text of at most MaxChars characters.
SmallTexts == SeqsUpTo(Chars, MaxChars)

\* The text of n one-character lines, "b" at the (0-based) line indices in D and
\* "a" elsewhere.
LinesText(n, D) ==
  [k \in 1..(2 * n - 1) |->
     IF k % 2 = 0 THEN NL ELSE IF ((k - 1) \div 2) \in D THEN "b" ELSE "a"]

\* Longer snapshot pairs <<before, after>>: the change percentages at and around
\* the band boundaries, four separate regions, and the first length at which one
\* changed line rounds to 0.0 percent.
LongPairs ==
  { <<LinesText(7, {}), LinesText(7, {0, 2, 4, 6})>>,
    <<LinesText(7, {}), LinesText(8, {0, 2, 4})>>,
    <<LinesText(10, {}), LinesText(10, {3})>>,
    <<LinesText(10, {}), LinesText(10, {0, 1, 2})>>,
    <<LinesText(20, {}), LinesText(20, {19})>>,
    <<LinesText(50, {}), LinesText(50, {7})>>,
    <<LinesText(51, {}), LinesText(51, {7})>>,
    <<LinesText(2000, {}), LinesText(2000, {1000})>>,
    <<LinesText(2001, {}), LinesText(2001, {1000})>> }

SnapshotPairs == (SmallTexts \X SmallTexts) \cup LongPairs

UserActions == {"edit", "paste"}
Skills == {"ui-ux-pro-max", "frontend-design"}

\* ------------------------------------------- specification of the diff engine
\* One edit event of a file without recorded history goes through
\* recordModification and then analyzeModificationType (detectModifications,
\* lines 44 and 47).
InitDiff ==
  /\ \E pair \in SnapshotPairs, action \in UserActions, skill \in Skills :
       ctx = [filePath |-> "f1", generatedBySkill |-> skill, userAction |-> action,
              sessionId |-> << ContextSession(1) >>,
              previousContent |-> pair[1], newContent |-> pair[2]]
  /\ modification = <<>>
  /\ analysis = <<>>
  /\ dpc = "start"
  /\ FeedbackIdle
  /\ HooksIdle
  /\ RestIdle

RecordModification ==
  /\ dpc = "start"
  /\ modification' = << recordModification(ctx, <<>>, 1) >>
  /\ dpc' = "recorded"
  /\ UNCHANGED <<ctx, analysis, feedbackVars, hookVars, restVars>>

AnalyzeModificationType ==
  /\ dpc = "recorded"
  /\ analysis' = << analyzeModificationType(modification[1]) >>
  /\ dpc' = "analyzed"
  /\ UNCHANGED <<ctx, modification, feedbackVars, hookVars, restVars>>

NextDiff == RecordModification \/ AnalyzeModificationType

SpecDiff == InitDiff /\ [][NextDiff]_vars

\* ------------------------------------------------------- satisfaction scorer
\* calculateDiff (collect-feedback.js): the loop counting the changed lines among
\* the indices i, i+1, ..., n-1.
RECURSIVE ChangedLines(_, _, _, _)
ChangedLines(originalLines, modifiedLines, i, n) ==
  IF i >= n THEN 0
  ELSE (IF originalLines[i + 1] # modifiedLines[i + 1] THEN 1 ELSE 0)
       + ChangedLines(originalLines, modifiedLines, i + 1, n)

calculateDiff(original, modified) ==
  LET originalLines == Split(original)
      modifiedLines == Split(modified)
      added == Len(modifiedLines) - Len(originalLines)
      removed == IF added < 0 THEN Abs(added) ELSE 0
      modified_count == Min(Len(originalLines), Len(modifiedLines))
      changedLines == ChangedLines(originalLines, modifiedLines, 0, modified_count)
      totalLines == Max(Len(originalLines), Len(modifiedLines))
  IN  [added |-> Max(0, added),
       removed |-> removed,
       modified |-> changedLines,
       changePercentage |->
         IF totalLines > 0 THEN MathRound(1000 * changedLines, totalLines) ELSE 0]

categorizeModifications(diff) ==
  << IF diff.changePercentage < 50 THEN "minor_tweaks"
     ELSE IF diff.changePercentage < 200 THEN "moderate_changes"
     ELSE IF diff.changePercentage < 500 THEN "significant_rewrite"
     ELSE "complete_overhaul" >>
  \o (IF diff.added > diff.removed THEN <<"expansion">>
      ELSE IF diff.removed > diff.added THEN <<"reduction">>
      ELSE <<>>)

\* analyzeFileModification: <<>> (null) or <<the modification of one file>>.
\* file.claudeVersion is what findClaudeGeneratedVersion returns for file.path
\* (<<>> for null), file.userVersion what fs.readFile yields (<<>> when the read
\* throws).
analyzeFileModification(file) ==
  IF file.claudeVersion = <<>> \/ file.claudeVersion[1] = <<>>
  THEN <<>>
  ELSE IF file.userVersion = <<>>
  THEN <<>>
  ELSE LET claudeVersion == file.claudeVersion[1]
           userVersion == file.userVersion[1]
           diff == calculateDiff(claudeVersion, userVersion)
       IN  << [file_path |-> file.path,
               claude_version_length |-> Len(claudeVersion),
               user_version_length |-> Len(userVersion),
               modifications |-> [lines_added |-> diff.added,
                                  lines_removed |-> diff.removed,
                                  lines_modified |-> diff.modified,
                                  percentage_changed |-> diff.changePercentage],
               modification_categories |-> categorizeModifications(diff),
               skill_that_generated |-> file.generatedBySkill] >>

\* detectUserModifications: the non-null modifications of the files, in order.
RECURSIVE detectUserModifications(_)
detectUserModifications(files) ==
  IF files = <<>> THEN <<>>
  ELSE analyzeFileModification(Head(files)) \o detectUserModifications(Tail(files))

\* modifications.reduce((sum, m) => sum + m.modifications.percentage_changed, 0)
RECURSIVE SumChange(_)
SumChange(mods) ==
  IF mods = <<>> THEN 0
  ELSE mods[1].modifications.percentage_changed + SumChange(Tail(mods))

\* (mutant of calculateSatisfactionScore) the division by modifications.length
\* left out: 100 minus the SUM of the change percentages.
calculateSatisfactionScoreOfSum(mods) ==
  IF Len(mods) = 0 THEN 100
  ELSE Max(0, Min(100, MathRound(Max(0, 1000 - SumChange(mods)), 10)))

\* (mutant of calculateSatisfactionScore) the "100 -" left out: the mean change.
calculateSatisfactionScoreOfChange(mods) ==
  IF Len(mods) = 0 THEN 100
  ELSE Max(0, Min(100, MathRound(SumChange(mods), 10 * Len(mods))))

\* calculateSatisfactionScore: a whole number of points.  avgChange is
\* SumChange / (10 * length) percent, so 100 - avgChange is
\* (1000 * length - SumChange) / (10 * length).
calculateSatisfactionScore(mods) ==
  IF Len(mods) = 0 THEN 100
  ELSE Max(0, Min(100, MathRound(1000 * Len(mods) - SumChange(mods), 10 * Len(mods))))

\* analyzeModifications: the per-skill statistics and the category histogram.
SkillsOf(mods) == {mods[k].skill_that_generated : k \in 1..Len(mods)}
CategoriesOf(mods) ==
  UNION {{mods[k].modification_categories[j] :
            j \in 1..Len(mods[k].modification_categories)} : k \in 1..Len(mods)}
CategoryCount(mods, ks, cat) ==
  Cardinality({<<k, j>> \in ks \X (1..2) :
                 j <= Len(mods[k].modification_categories)
                 /\ mods[k].modification_categories[j] = cat})
\* (mutant of SumOver) the accumulator assigned instead of added to: the value of
\* the last record of the group.
SumOverAssigned(mods, ks, field) ==
  IF ks = {} THEN 0
  ELSE mods[CHOOSE k \in ks : \A j \in ks : j <= k].modifications[field]

RECURSIVE SumOver(_, _, _)
SumOver(mods, ks, field) ==
  IF ks = {} THEN 0
  ELSE LET k == CHOOSE x \in ks : TRUE
       IN  mods[k].modifications[field] + SumOver(mods, ks \ {k}, field)

analyzeModifications(mods) ==
  [overall_satisfaction |-> calculateSatisfactionScore(mods),
   skill_feedback |->
     [skill \in SkillsOf(mods) |->
        LET ks == {k \in 1..Len(mods) : mods[k].skill_that_generated = skill}
        IN  [total_files |-> Cardinality(ks),
             total_changes |-> SumOver(mods, ks, "lines_modified"),
             avg_change_percentage |->
               MathRound(SumOver(mods, ks, "percentage_changed"), Cardinality(ks)),
             categories |->
               [cat \in {c \in CategoriesOf(mods) : CategoryCount(mods, ks, c) > 0} |->
                  CategoryCount(mods, ks, cat)]]],
   modification_patterns |->
     [cat \in CategoriesOf(mods) |-> CategoryCount(mods, 1..Len(mods), cat)]]

\* The files a session may have modified: the version Claude wrote and the version
\* found on disk at session end.
FileKinds ==
  { [path |-> "same", generatedBySkill |-> "ui-ux-pro-max",
     claudeVersion |-> << <<"a">> >>, userVersion |-> << <<"a">> >>],
    [path |-> "third", generatedBySkill |-> "ui-ux-pro-max",
     claudeVersion |-> << LinesText(3, {}) >>, userVersion |-> << LinesText(3, {1}) >>],
    [path |-> "half", generatedBySkill |-> "frontend-design",
     claudeVersion |-> << LinesText(2, {}) >>, userVersion |-> << LinesText(2, {1}) >>],
    [path |-> "twothirds", generatedBySkill |-> "frontend-design",
     claudeVersion |-> << LinesText(3, {}) >>, userVersion |-> << LinesText(3, {0, 1}) >>],
    [path |-> "all", generatedBySkill |-> "ui-ux-pro-max",
     claudeVersion |-> << <<"a">> >>, userVersion |-> << <<"b">> >>],
    [path |-> "grown", generatedBySkill |-> "frontend-design",
     claudeVersion |-> << <<"a">> >>, userVersion |-> << LinesText(2, {1}) >>],
    [path |-> "five", generatedBySkill |-> "ui-ux-pro-max",
     claudeVersion |-> << LinesText(20, {}) >>, userVersion |-> << LinesText(20, {19}) >>],
    [path |-> "fortyfive", generatedBySkill |-> "ui-ux-pro-max",
     claudeVersion |-> << LinesText(20, {}) >>,
     userVersion |-> << LinesText(20, 0..8) >>],
    [path |-> "foreign", generatedBySkill |-> "unknown",
     claudeVersion |-> <<>>, userVersion |-> << <<"a">> >>],
    [path |-> "unreadable", generatedBySkill |-> "frontend-design",
     claudeVersion |-> << <<"a">> >>, userVersion |-> <<>>] }

\* ----------------------------------- specification of the satisfaction scorer
\* A session end: collectFeedback runs detectUserModifications and then
\* analyzeModifications (lines 38 and 41).
InitFeedback ==
  /\ filesModified \in SeqsUpTo(FileKinds, MaxFiles)
  /\ modifications = <<>>
  /\ feedback = <<>>
  /\ fpc = "start"
  /\ DiffIdle
  /\ HooksIdle
  /\ RestIdle

DetectUserModifications ==
  /\ fpc = "start"
  /\ modifications' = detectUserModifications(filesModified)
  /\ fpc' = "detected"
  /\ UNCHANGED <<filesModified, feedback, diffVars, hookVars, restVars>>

AnalyzeModifications ==
  /\ fpc = "detected"
  /\ feedback' = << analyzeModifications(modifications) >>
  /\ fpc' = "analyzed"
  /\ UNCHANGED <<filesModified, modifications, diffVars, hookVars, restVars>>

NextFeedback == DetectUserModifications \/ AnalyzeModifications

SpecFeedback == InitFeedback /\ [][NextFeedback]_vars

\* ------------------------------------ specification of the two diff functions
\* One pair of texts (original, modified) is handed to calculateDetailedDiff
\* (detect-modifications.js) and to calculateDiff (collect-feedback.js).
ComparedPairs ==
  (SmallTexts \X SmallTexts)
  \cup { <<LinesText(7, {}), LinesText(8, {0, 2, 4})>>,
         <<LinesText(20, {}), LinesText(20, {19})>> }

InitCompare ==
  /\ \E pair \in ComparedPairs :
       comparison = [original |-> pair[1], modified |-> pair[2],
                     detailed |-> <<>>, simple |-> <<>>]
  /\ OverlapIdle
  /\ OptimizerIdle
  /\ LearnIdle
  /\ DiffIdle
  /\ FeedbackIdle
  /\ HooksIdle

CompareDetailed ==
  /\ comparison.detailed = <<>>
  /\ comparison' =
       [comparison EXCEPT !.detailed =
          << calculateDetailedDiff(comparison.original, comparison.modified) >>]
  /\ UNCHANGED <<overlap, optimizerVars, learnVars, diffVars, feedbackVars, hookVars>>

CompareSimple ==
  /\ comparison.simple = <<>>
  /\ comparison' =
       [comparison EXCEPT !.simple =
          << calculateDiff(comparison.original, comparison.modified) >>]
  /\ UNCHANGED <<overlap, optimizerVars, learnVars, diffVars, feedbackVars, hookVars>>

NextCompare == CompareDetailed \/ CompareSimple

SpecCompare == InitCompare /\ [][NextCompare]_vars

\* ===================================================== claims on the diff engine
\* What the claims speak of, read off the inputs independently of the loop.
LineCount(text) == Cardinality({i \in 1..Len(text) : text[i] = NL}) + 1
BeforeCount == LineCount(ctx.previousContent)
AfterCount == LineCount(ctx.newContent)
MinCount == Min(BeforeCount, AfterCount)
MaxCount == Max(BeforeCount, AfterCount)
\* The 0-based indices below min(len) at which the two snapshots differ.
DifferingIndices ==
  LET b == Split(ctx.previousContent)
      a == Split(ctx.newContent)
  IN  {i \in 0..(MinCount - 1) : b[i + 1] # a[i + 1]}
Recorded == dpc # "start"
Analyzed == dpc = "analyzed"
TheDiff == modification[1].diff
Regions == TheDiff.affected_regions

\* C2: added = max(0, len(after) - len(before)), removed = max(0, len(before) -
\* len(after)), modified = the number of indices below min(len) at which the
\* snapshots differ, and at most one of added and removed is positive.
C2_DiffCounts ==
  Recorded =>
    /\ TheDiff.lines_added = Max(0, AfterCount - BeforeCount)
    /\ TheDiff.lines_removed = Max(0, BeforeCount - AfterCount)
    /\ TheDiff.lines_modified = Cardinality(DifferingIndices)
    /\ ~(TheDiff.lines_added > 0 /\ TheDiff.lines_removed > 0)

\* C2 witness: an edit that both changes lines in place and appends lines.
C2_Witness ==
  Recorded /\ TheDiff.lines_modified >= 2 /\ TheDiff.lines_added >= 1

\* C3: change_percentage is 100 x (modified + added + removed) / max(len) rounded
\* to one decimal (within half a tenth of the exact quotient), lies in [0,100],
\* and is 0 when both texts are empty.
C3_ChangePercentage ==
  Recorded =>
    LET exact1000 == 1000 * (TheDiff.lines_modified + TheDiff.lines_added
                             + TheDiff.lines_removed)
        tenths == TheDiff.change_percentage
    IN  /\ 2 * Abs(tenths * MaxCount - exact1000) <= MaxCount
        /\ tenths >= 0 /\ tenths <= 1000
        /\ (ctx.previousContent = <<>> /\ ctx.newContent = <<>> => tenths = 0)

\* C3 witness: two of three lines changed, 66.666... percent, stored as 66.7.
C3_Witness ==
  Recorded /\ MaxCount = 3 /\ TheDiff.lines_modified = 2
    /\ TheDiff.lines_added + TheDiff.lines_removed = 0
    /\ TheDiff.change_percentage = 667

\* C4 as originally stated: for snapshots with the same number of lines, of any
\* length, change_percentage is 0 iff the snapshots are line-for-line identical.
C4_ZeroIffIdentical ==
  (Recorded /\ BeforeCount = AfterCount) =>
    (TheDiff.change_percentage = 0 <=> DifferingIndices = {})

\* C4 amended: for snapshots with the same number n of lines, change_percentage
\* is 0 iff fewer than one line in 2000 differs (2000 x differing < n); hence iff
\* the snapshots are identical whenever n <= 2000.
C4_ZeroIffBelowRounding ==
  (Recorded /\ BeforeCount = AfterCount) =>
    /\ TheDiff.change_percentage = 0
         <=> 2000 * Cardinality(DifferingIndices) < BeforeCount
    /\ BeforeCount <= 2000 =>
         (TheDiff.change_percentage = 0 <=> DifferingIndices = {})

\* C4 witness: 2000 lines of which one differs still show (0.1 percent).
C4_Witness ==
  Recorded /\ BeforeCount = 2000 /\ AfterCount = 2000
    /\ Cardinality(DifferingIndices) = 1 /\ TheDiff.change_percentage = 1

\* C5: the regions are sorted by start and pairwise disjoint, each with
\* start <= end; the 'modified' ones are exactly the maximal runs of differing
\* indices below min(len); and when the lengths differ exactly one more region,
\* the last, tagged 'added' or 'removed', covers min(len)..max(len)-1.
C5_Regions ==
  Recorded =>
    LET n == Len(Regions)
        modifiedKs == {k \in 1..n : Regions[k].type = "modified"}
        runStarts == {i \in DifferingIndices : (i - 1) \notin DifferingIndices}
    IN  /\ \A k \in 1..n : Regions[k].start <= Regions[k].end
        /\ \A k \in 1..(n - 1) : Regions[k].end < Regions[k + 1].start
        /\ \A k \in modifiedKs :
             /\ Regions[k].start \in runStarts
             /\ \A i \in Regions[k].start..Regions[k].end : i \in DifferingIndices
             /\ (Regions[k].end + 1) \notin DifferingIndices
        /\ Cardinality(modifiedKs) = Cardinality(runStarts)
        /\ IF BeforeCount = AfterCount
           THEN modifiedKs = 1..n
           ELSE /\ n >= 1
                /\ modifiedKs = 1..(n - 1)
                /\ Regions[n].type =
                     (IF AfterCount > BeforeCount THEN "added" ELSE "removed")
                /\ Regions[n].start = MinCount
                /\ Regions[n].end = MaxCount - 1

\* C5 witness: three separate modified runs followed by the trailing added region.
C5_Witness ==
  Recorded /\ Len(Regions) = 4 /\ Regions[4].type = "added"
    /\ Regions[1].type = "modified" /\ Regions[3].type = "modified"

\* C6 as originally stated: severity follows the bands [0,2) trivial, [2,10)
\* minor, [10,30) moderate, [30,100] major.
C6_FourSeverities ==
  Analyzed =>
    analysis[1].severity =
      (IF TheDiff.change_percentage < 20 THEN "trivial"
       ELSE IF TheDiff.change_percentage < 100 THEN "minor"
       ELSE IF TheDiff.change_percentage < 300 THEN "moderate"
       ELSE "major")

\* C6 amended: exactly one degree category, following the bands [0,2) typo_fix,
\* [2,10) minor_adjustment, [10,30) moderate_change, [30,100] major_rewrite, and
\* exactly one of three severities: minor on [0,10), moderate on [10,30), major
\* on [30,100].
DegreeCategories == {"typo_fix", "minor_adjustment", "moderate_change", "major_rewrite"}
C6_BandsAndSeverity ==
  Analyzed =>
    LET p == TheDiff.change_percentage
        cats == analysis[1].categories
    IN  /\ {cats[k] : k \in 1..Len(cats)} \cap DegreeCategories =
             {IF p < 20 THEN "typo_fix"
              ELSE IF p < 100 THEN "minor_adjustment"
              ELSE IF p < 300 THEN "moderate_change"
              ELSE "major_rewrite"}
        /\ Cardinality({k \in 1..Len(cats) : cats[k] \in DegreeCategories}) = 1
        /\ analysis[1].severity =
             (IF p < 100 THEN "minor" ELSE IF p < 300 THEN "moderate" ELSE "major")

\* C6 witness: a change of exactly 10 percent, the lower end of the moderate band.
C6_Witness ==
  Analyzed /\ TheDiff.change_percentage = 100 /\ analysis[1].severity = "moderate"

\* C7: a record with lines added > 2 x lines removed is tagged content_addition
\* (reasons feature_enhancement, missing_functionality); one with lines removed
\* > 2 x lines added is tagged content_removal; one with lines modified > lines
\* added + lines removed is tagged content_modification.
C7_OperationTag ==
  Analyzed =>
    LET cats == {analysis[1].categories[k] : k \in 1..Len(analysis[1].categories)}
        reasons == {analysis[1].likely_reason[k] :
                      k \in 1..Len(analysis[1].likely_reason)}
    IN  /\ TheDiff.lines_added > 2 * TheDiff.lines_removed =>
             /\ "content_addition" \in cats
             /\ {"feature_enhancement", "missing_functionality"} \subseteq reasons
        /\ TheDiff.lines_removed > 2 * TheDiff.lines_added =>
             "content_removal" \in cats
        /\ TheDiff.lines_modified > TheDiff.lines_added + TheDiff.lines_removed =>
             "content_modification" \in cats

\* C8: the region-spread tag is focused iff there is exactly 1 affected region,
\* multi-region iff there are 2 or 3, scattered iff there are more than 3.
C8_RegionSpread ==
  Analyzed =>
    LET cats == {analysis[1].categories[k] : k \in 1..Len(analysis[1].categories)}
        n == Len(Regions)
    IN  /\ "focused_change" \in cats <=> n = 1
        /\ "multi_region_change" \in cats <=> n \in {2, 3}
        /\ "scattered_changes" \in cats <=> n > 3

\* ============================================ claims on the satisfaction scorer
Scored == fpc = "analyzed"
Satisfaction == feedback[1].overall_satisfaction
ChangeOf(k) == modifications[k].modifications.percentage_changed
\* The sum of the change percentages (in tenths) of the modifications.
TotalChange == SumOver(modifications, 1..Len(modifications), "percentage_changed")

\* C9 as originally stated: the satisfaction is 100 without modified files and
\* otherwise exactly 100 minus the mean change percentage (clamped to [0,100]).
C9_ExactMean ==
  Scored =>
    LET n == Len(modifications)
    IN  IF n = 0 THEN Satisfaction = 100
        ELSE 10 * n * Satisfaction = Max(0, Min(1000 * n, 1000 * n - TotalChange))

\* C9 amended: the satisfaction is 100 without modified files and otherwise 100
\* minus the mean change percentage rounded to the nearest whole number (within
\* one half of the exact difference) and clamped to [0,100].
C9_RoundedMean ==
  Scored =>
    LET n == Len(modifications)
    IN  IF n = 0 THEN Satisfaction = 100
        ELSE /\ 2 * Abs(10 * n * Satisfaction - (1000 * n - TotalChange)) <= 10 * n
             /\ Satisfaction \in 0..100

\* C9 witness: two modified files at 5% and 45% give 75.
C9_Witness ==
  Scored /\ Len(modifications) = 2 /\ {ChangeOf(1), ChangeOf(2)} = {50, 450}
    /\ Satisfaction = 75

\* C10: the satisfaction is in [0,100], and raising the change percentage of any
\* one modification, the others fixed, never raises it.
Raises == {1, 4, 10, 100, 1000}
C10_Monotone ==
  Scored =>
    /\ Satisfaction >= 0 /\ Satisfaction <= 100
    /\ \A k \in 1..Len(modifications), d \in Raises :
         LET raised == [modifications EXCEPT
                          ![k].modifications.percentage_changed = Min(1000, @ + d)]
         IN  calculateSatisfactionScore(raised) <= Satisfaction

\* C10 witness: three modifications with a satisfaction strictly inside (0,100)
\* that a raise of one of them strictly lowers.
C10_Witness ==
  Scored /\ Len(modifications) = 3 /\ Satisfaction > 0 /\ Satisfaction < 100
    /\ \E k \in 1..3 :
         calculateSatisfactionScore(
           [modifications EXCEPT ![k].modifications.percentage_changed = 1000])
         < Satisfaction

\* What C12 speaks of, read off the list of modifications position by position.
Generators == {modifications[k].skill_that_generated : k \in 1..Len(modifications)}
RecordsOf(g) == {k \in 1..Len(modifications) : modifications[k].skill_that_generated = g}
RECURSIVE PrefixSum(_, _, _)
PrefixSum(g, field, n) ==
  IF n = 0 THEN 0
  ELSE PrefixSum(g, field, n - 1)
       + (IF modifications[n].skill_that_generated = g
          THEN modifications[n].modifications[field] ELSE 0)
Carrying(g, cat) ==
  {k \in RecordsOf(g) :
     \E j \in 1..Len(modifications[k].modification_categories) :
       modifications[k].modification_categories[j] = cat}
AllCategories ==
  {"minor_tweaks", "moderate_changes", "significant_rewrite", "complete_overhaul",
   "expansion", "reduction"}
RECURSIVE TotalFiles(_, _)
TotalFiles(fb, gs) ==
  IF gs = {} THEN 0
  ELSE LET g == CHOOSE x \in gs : TRUE
       IN  fb[g].total_files + TotalFiles(fb, gs \ {g})

GeneratedByClaude(file) == file.claudeVersion # <<>> /\ file.claudeVersion[1] # <<>>
C16_PlaceholderOnFailure ==
  fpc \in {"detected", "analyzed"} =>
    \A k \in 1..Len(filesModified) :
      GeneratedByClaude(filesModified[k]) =>
        \E j \in 1..Len(modifications) :
          /\ modifications[j].file_path = filesModified[k].path
          /\ filesModified[k].userVersion = <<>> =>
               "note" \in DOMAIN modifications[j]

\* C11: for every pair of texts, calculateDiff (collect-feedback.js) returns the
\* same added, removed, modified and change percentage as calculateDetailedDiff
\* (detect-modifications.js).
C11_SameStatistics ==
  (comparison # <<>> /\ comparison.detailed # <<>> /\ comparison.simple # <<>>) =>
    LET detailed == comparison.detailed[1]
        simple == comparison.simple[1]
    IN  /\ simple.added = detailed.added
        /\ simple.removed = detailed.removed
        /\ simple.modified = detailed.modified
        /\ simple.changePercentage = detailed.changePercentage

\* ================================================================ the hooks
\* How an async hook function settles: its promise resolves with a value or
\* rejects with the error thrown.
Resolved(value) == [kind |-> "resolved", value |-> value]
Rejected(error) == [kind |-> "rejected", value |-> [error |-> error]]
Allow == [allow |-> TRUE]

EmptyMap == [x \in {} |-> x]
Put(map, key, value) ==
  [x \in (DOMAIN map) \cup {key} |-> IF x = key THEN value ELSE map[x]]

\* The end of an invocation of hook: the promise settles, the outer catch block
\* (if it ran) has logged the errors in logged.  errorLog is the set of what has
\* been logged so far.
Settle(hook, settlement, logged) ==
  /\ call' = Idle
  /\ outcome' = << [hook |-> hook, settlement |-> settlement, logged |-> logged] >>
  /\ errorLog' = errorLog \cup logged

Begin(hook, context, pc, locals) ==
  /\ call = Idle
  /\ invocations < MaxInvocations
  /\ invocations' = invocations + 1
  /\ call' = [hook |-> hook, context |-> context, pc |-> pc, locals |-> locals]

At(hook, pc) == call.hook = hook /\ call.pc = pc

\* ------------------------------------------------------ detectModifications
\* (mutant of detectModificationsCatch) the catch block rethrows.
detectModificationsRethrow(error) == Rejected(error)

\* The catch block of detectModifications (lines 56-59).
detectModificationsCatch(error) == Resolved(Allow)

DetectThrows(error) ==
  Settle("detectModifications", detectModificationsCatch(error),
         {[hook |-> "detectModifications", error |-> error]})

\* modificationCache: a Map, held as the sequence of its entries in insertion
\* order.
CacheHas(cache, key) == \E k \in 1..Len(cache) : cache[k].key = key
CacheGet(cache, key) == cache[CHOOSE k \in 1..Len(cache) : cache[k].key = key].history
CacheSet(cache, key, history) ==
  IF CacheHas(cache, key)
  THEN [k \in 1..Len(cache) |->
          IF cache[k].key = key THEN [key |-> key, history |-> history] ELSE cache[k]]
  ELSE Append(cache, [key |-> key, history |-> history])

cleanupCache(cache) ==
  IF Len(cache) > MAX_CACHE_SIZE
  THEN SubSeq(cache, Len(cache) - MAX_CACHE_SIZE + 1, Len(cache))
  ELSE cache

\* loadModificationHistory: the parsed history file, [] when the file is missing
\* or cannot be read.
loadModificationHistory(filePath, readable) ==
  IF readable /\ filePath \in DOMAIN historyFiles THEN historyFiles[filePath] ELSE <<>>

\* (mutant of PushHistory) slice(0, 50) in place of slice(-50): the oldest 50
\* entries kept.
PushHistoryKeepsOldest(history, m, content) ==
  LET pushed == Append(history, [content |-> content, diff |-> m.diff])
  IN  IF Len(pushed) > MaxHistory THEN SubSeq(pushed, 1, MaxHistory) ELSE pushed

\* history.push(...) and the cut to the last 50 entries (lines 118-128).
PushHistory(history, m, content) ==
  LET pushed == Append(history, [content |-> content, diff |-> m.diff])
  IN  IF Len(pushed) > MaxHistory
      THEN SubSeq(pushed, Len(pushed) - MaxHistory + 1, Len(pushed))
      ELSE pushed

\* The file-edit contexts: null, an untracked file (no generatedBySkill), a
\* tracked file, and a tracked file whose newContent is not a string.
Files == {"f1", "f2"}
EditContents == {<<"a">>, <<"a", NL, "b">>}
DetectContexts ==
  {[shape |-> "null"]}
  \cup {[shape |-> "object", filePath |-> f, generatedBySkill |-> g,
         sessionId |-> << ContextSession(1) >>,
         userAction |-> "edit", previousContent |-> <<>>, newContent |-> c] :
          f \in Files, g \in {"", "frontend-design"}, c \in EditContents}
  \cup {[shape |-> "nonstring", filePath |-> "f1",
         generatedBySkill |-> "frontend-design", userAction |-> "edit",
         sessionId |-> << ContextSession(1) >>,
         previousContent |-> <<>>, newContent |-> <<>>]}

\* (mutant of Untracked) the test of line 39 left out: every file is tracked.
UntrackedNever(context) == FALSE

\* !context.generatedBySkill (line 39): the file was not generated by a skill.
Untracked(context) == context.generatedBySkill = ""

DetectStart ==
  /\ \E context \in DetectContexts :
       Begin("detectModifications", context, "ensureDirectories", <<>>)
  /\ UNCHANGED <<outcome, errorLog, detectStore, executionStore, feedbackStore>>
  /\ UNCHANGED <<diffVars, feedbackVars, restVars>>

\* The rest of recordModification once the history is in the cache, then
\* analyzeModificationType: synchronous, up to the first write of
\* saveModification.  calculateDetailedDiff throws a TypeError (split is not a
\* function) when newContent is not a string; the cache entry set before stays.
DetectRecordAndAnalyze(cache) ==
  LET context == call.context
      history == CacheGet(cache, context.filePath)
      m == recordModification(context, history, invocations)
  IN  IF context.shape = "nonstring"
      THEN /\ modificationCache' = cache
           /\ DetectThrows("TypeError")
           /\ UNCHANGED invocations
      ELSE /\ modificationCache' =
                CacheSet(cache, context.filePath,
                         PushHistory(history, m, context.newContent))
           /\ call' = [call EXCEPT !.pc = "writeRecord",
                         !.locals = << [modification |-> m,
                                        analysis |-> analyzeModificationType(m)] >>]
           /\ UNCHANGED <<outcome, errorLog, invocations>>

\* await ensureDirectories(), the generatedBySkill test and the cache lookup of
\* recordModification.
DetectEnsureDirectories ==
  /\ At("detectModifications", "ensureDirectories")
  /\ \E ok \in BOOLEAN :
       IF ~ok
       THEN DetectThrows("mkdir failed") /\ UNCHANGED <<invocations, modificationCache>>
       ELSE IF call.context.shape = "null"
       THEN DetectThrows("TypeError") /\ UNCHANGED <<invocations, modificationCache>>
       ELSE IF Untracked(call.context)
       THEN Settle("detectModifications", Resolved(Allow), {})
            /\ UNCHANGED <<invocations, modificationCache>>
       ELSE IF CacheHas(modificationCache, call.context.filePath)
       THEN DetectRecordAndAnalyze(modificationCache)
       ELSE /\ call' = [call EXCEPT !.pc = "loadHistory"]
            /\ UNCHANGED <<outcome, errorLog, invocations, modificationCache>>
  /\ UNCHANGED <<historyFiles, modificationFiles, executionStore, feedbackStore>>
  /\ UNCHANGED <<diffVars, feedbackVars, restVars>>

\* await loadModificationHistory(filePath), modificationCache.set, and on.
DetectLoadHistory ==
  /\ At("detectModifications", "loadHistory")
  /\ \E readable \in BOOLEAN :
       DetectRecordAndAnalyze(
         CacheSet(modificationCache, call.context.filePath,
                  loadModificationHistory(call.context.filePath, readable)))
  /\ UNCHANGED <<historyFiles, modificationFiles, executionStore, feedbackStore>>
  /\ UNCHANGED <<diffVars, feedbackVars, restVars>>

\* saveModification: the first await fs.writeFile (the record file).
DetectWriteRecord ==
  /\ At("detectModifications", "writeRecord")
  /\ \E ok \in BOOLEAN :
       IF ok
       THEN /\ modificationFiles' =
                 Put(modificationFiles, call.locals[1].modification.id,
                     [modification |-> call.locals[1].modification,
                      analysis |-> call.locals[1].analysis])
            /\ call' = [call EXCEPT !.pc = "writeHistory"]
            /\ UNCHANGED <<outcome, errorLog>>
       ELSE DetectThrows("write failed") /\ UNCHANGED modificationFiles
  /\ UNCHANGED <<invocations, modificationCache, historyFiles, executionStore,
                 feedbackStore>>
  /\ UNCHANGED <<diffVars, feedbackVars, restVars>>

\* saveModification: the second await fs.writeFile (the history file), then
\* cleanupCache() and return { allow: true }.
DetectWriteHistory ==
  /\ At("detectModifications", "writeHistory")
  /\ \E ok \in BOOLEAN :
       IF ok
       THEN /\ historyFiles' =
                 Put(historyFiles, call.context.filePath,
                     IF CacheHas(modificationCache, call.context.filePath)
                     THEN CacheGet(modificationCache, call.context.filePath)
                     ELSE <<>>)
            /\ modificationCache' = cleanupCache(modificationCache)
            /\ Settle("detectModifications", Resolved(Allow), {})
       ELSE DetectThrows("write failed")
            /\ UNCHANGED <<historyFiles, modificationCache>>
  /\ UNCHANGED <<invocations, modificationFiles, executionStore, feedbackStore>>
  /\ UNCHANGED <<diffVars, feedbackVars, restVars>>

\* ---------------------------------------------------------- recordExecution
\* The catch block of recordExecution (lines 475-479).
recordExecutionCatch(error) == Resolved(Allow)

RecordThrows(error) ==
  Settle("recordExecution", recordExecutionCatch(error),
         {[hook |-> "recordExecution", error |-> error]})

\* The tool-use contexts: null, a tool other than Skill, a Skill call, and a Skill
\* call whose last user message has a content that is not a string
\* (extractKeywords then throws on request.toLowerCase).
\* A request (the content of the last user message) is the sequence of its
\* words, the parts that whitespace separates.
Requests ==
  { <<"Design", "a", "page">>,
    <<"Mail", "Bob@Mail.io", "123-45-6789", "4111111111111111", "10.0.0.1">> }
RecordContexts ==
  { [shape |-> "null"],
    [shape |-> "object", tool |-> "Read", skill |-> ""],
    [shape |-> "badrequest", tool |-> "Skill", skill |-> "frontend-design"] }
  \cup {[shape |-> "object", tool |-> "Skill", skill |-> "frontend-design",
         request |-> request] : request \in Requests}

\* What the four patterns of anonymizeText match among the words of the requests.
SSNShaped == {"123-45-6789"}
EmailShaped == {"Bob@Mail.io", "bob@mail.io"}
CardShaped == {"4111111111111111"}
IPShaped == {"10.0.0.1"}

\* anonymizeText: the four replace calls, in their order, on each word.
anonymizeWord(word) ==
  IF word \in SSNShaped THEN "[SSN]"
  ELSE IF word \in EmailShaped THEN "[EMAIL]"
  ELSE IF word \in CardShaped THEN "[CARD]"
  ELSE IF word \in IPShaped THEN "[IP]"
  ELSE word
anonymizeText(text) == [k \in 1..Len(text) |-> anonymizeWord(text[k])]

\* String.prototype.toLowerCase on the words of the requests.
toLowerCase(word) ==
  IF word = "Design" THEN "design"
  ELSE IF word = "Mail" THEN "mail"
  ELSE IF word = "Bob@Mail.io" THEN "bob@mail.io"
  ELSE word

\* extractKeywords: the lower-cased words longer than 3 characters, the first 10.
extractKeywords(request) ==
  LET words == [k \in 1..Len(request) |-> toLowerCase(request[k])]
      long == SelectSeq(words, LAMBDA word : Len(word) > 3)
  IN  SubSeq(long, 1, Min(10, Len(long)))

\* quality_scores: overall in tenths.  What the evaluator script may print, and
\* the default of lines 457-461.
EvaluatorScores == {[overall |-> 3, note |-> ""], [overall |-> 9, note |-> ""]}
\* (mutant of DefaultScores) the default taken for a failed output: overall 0.
DefaultScoresZero == [overall |-> 0, note |-> "Quality evaluation failed"]

DefaultScores == [overall |-> 5, note |-> "Quality evaluation failed"]

\* How one quality evaluation went: written (the input file was written), ran
\* (execFileAsync resolved), parses (stdout is valid JSON; stdout holds the
\* parsed result), removed (unlinkSync of the input file succeeded).
NotWritten ==
  [written |-> FALSE, ran |-> FALSE, parses |-> FALSE, stdout |-> <<>>,
   removed |-> FALSE]
Evaluations ==
  {[written |-> TRUE, ran |-> FALSE, parses |-> FALSE, stdout |-> <<>>,
    removed |-> removed] : removed \in BOOLEAN}
  \cup {[written |-> TRUE, ran |-> TRUE, parses |-> FALSE, stdout |-> <<>>,
         removed |-> removed] : removed \in BOOLEAN}
  \cup {[written |-> TRUE, ran |-> TRUE, parses |-> TRUE, stdout |-> << scores >>,
         removed |-> removed] : scores \in EvaluatorScores, removed \in BOOLEAN}
\* evaluateQuality: <<the result returned>>, or <<>> when it throws (the
\* evaluator failed, JSON.parse threw, or unlinkSync threw, in the try block or
\* again in the catch block).
evaluateQuality(evaluation) ==
  IF evaluation.written /\ evaluation.ran /\ evaluation.parses /\ evaluation.removed
  THEN evaluation.stdout ELSE <<>>
\* recordExecution, lines 449-462: the result, or the default scores on a throw.
QualityScores(evaluated) ==
  IF evaluated # <<>> THEN evaluated[1] ELSE DefaultScores

\* collectExecutionData, CONFIG.anonymize being true.
collectExecutionData(context, id) ==
  [session_id |-> id, skill_name |-> context.skill,
   trigger |-> [user_request |-> anonymizeText(context.request),
                detected_keywords |-> extractKeywords(context.request)],
   quality_scores |-> <<>>]

\* evaluateQuality: the evaluationInput written to the evaluator's input file.
evaluationInput(data) ==
  [context |-> [required_elements |-> data.trigger.detected_keywords,
                skill_name |-> data.skill_name]]

\* recordExecution up to its first await: the tool test, collectExecutionData and
\* the writeFileSync of the evaluator's input file in evaluateQuality.
RecordStart ==
  /\ \E context \in RecordContexts, tempWritable \in BOOLEAN :
       /\ call = Idle
       /\ invocations < MaxInvocations
       /\ invocations' = invocations + 1
       /\ IF context.shape = "null"
          THEN RecordThrows("TypeError") /\ UNCHANGED tempEvalFile
          ELSE IF context.tool # "Skill"
          THEN Settle("recordExecution", Resolved(Allow), {}) /\ UNCHANGED tempEvalFile
          ELSE IF context.shape = "badrequest"
          THEN RecordThrows("TypeError") /\ UNCHANGED tempEvalFile
          ELSE LET data == collectExecutionData(context, invocations + 1)
               IN  IF tempWritable
                   THEN /\ tempEvalFile' = << evaluationInput(data) >>
                        /\ call' = [hook |-> "recordExecution", context |-> context,
                                    pc |-> "evaluator", locals |-> << data >>]
                        /\ UNCHANGED <<outcome, errorLog>>
                   ELSE /\ call' = [hook |-> "recordExecution", context |-> context,
                                    pc |-> "save",
                                    locals |->
                                      << [data EXCEPT !.quality_scores =
                                            << QualityScores(
                                                 evaluateQuality(NotWritten)) >>],
                                         NotWritten >>]
                        /\ UNCHANGED <<outcome, errorLog, tempEvalFile>>
  /\ UNCHANGED <<detectStore, executionFiles, executionIndex, feedbackStore>>
  /\ UNCHANGED <<diffVars, feedbackVars, restVars>>

\* evaluateQuality after await execFileAsync(...): JSON.parse, the unlinkSync of
\* the input file, and the catch blocks of evaluateQuality and recordExecution.
RecordEvaluatorReturns ==
  /\ At("recordExecution", "evaluator")
  /\ \E evaluation \in Evaluations :
       /\ tempEvalFile' = IF evaluation.removed THEN <<>> ELSE tempEvalFile
       /\ call' = [call EXCEPT
                     !.pc = "save",
                     !.locals =
                        << [call.locals[1] EXCEPT !.quality_scores =
                              << QualityScores(evaluateQuality(evaluation)) >>],
                           evaluation >>]
  /\ UNCHANGED <<outcome, errorLog, invocations, detectStore, executionFiles,
                 executionIndex, feedbackStore>>
  /\ UNCHANGED <<diffVars, feedbackVars, restVars>>

\* updateIndex: the entry pushed and the cut to the last 1000 entries.
PushIndex(executions, data) ==
  LET pushed == Append(executions, [session_id |-> data.session_id,
                                    skill_name |-> data.skill_name])
  IN  IF Len(pushed) > MaxIndex
      THEN SubSeq(pushed, Len(pushed) - MaxIndex + 1, Len(pushed))
      ELSE pushed

\* saveExecutionData and updateIndex: synchronous; fault is the call that throws.
RecordSave ==
  /\ At("recordExecution", "save")
  /\ \E fault \in {"none", "mkdirSync", "writeRecord", "readIndex", "writeIndex"} :
       LET data == call.locals[1]
       IN  /\ executionFiles' =
                IF fault \in {"mkdirSync", "writeRecord"} THEN executionFiles
                ELSE Put(executionFiles, data.session_id, data)
           /\ executionIndex' =
                IF fault = "none" THEN PushIndex(executionIndex, data)
                ELSE executionIndex
           /\ IF fault = "none"
              THEN Settle("recordExecution", Resolved(Allow), {})
              ELSE RecordThrows(fault)
  /\ UNCHANGED <<invocations, detectStore, tempEvalFile, feedbackStore>>
  /\ UNCHANGED <<diffVars, feedbackVars, restVars>>

\* ---------------------------------------------------------- collectFeedback
\* The catch block of collectFeedback (lines 54-58).
collectFeedbackCatch(error) == Resolved(Allow)

FeedbackThrows(error) ==
  Settle("collectFeedback", collectFeedbackCatch(error),
         {[hook |-> "collectFeedback", error |-> error]})

NullFile == [path |-> "null"]
SessionFiles ==
  {f \in FileKinds : f.path \in {"third", "unreadable"}} \cup {NullFile}
FeedbackContexts ==
  {[shape |-> "null"]}
  \cup {[shape |-> "object", sessionId |-> << ContextSession(1) >>,
         filesModified |-> files, userRating |-> rating] :
          files \in SeqsUpTo(SessionFiles, 2), rating \in {<<>>, <<4>>}}

FeedbackStart ==
  /\ \E context \in FeedbackContexts :
       Begin("collectFeedback", context, "ensureDirectories", <<>>)
  /\ UNCHANGED <<outcome, errorLog, detectStore, executionStore, feedbackStore>>
  /\ UNCHANGED <<diffVars, feedbackVars, restVars>>

\* await ensureDirectories() and collectSessionSummary (a TypeError on a null
\* context); the session id is generated, not read from the context.
FeedbackEnsureDirectories ==
  /\ At("collectFeedback", "ensureDirectories")
  /\ \E ok \in BOOLEAN :
       IF ~ok THEN FeedbackThrows("mkdir failed")
       ELSE IF call.context.shape = "null" THEN FeedbackThrows("TypeError")
       ELSE /\ call' = [call EXCEPT
                          !.pc = IF call.context.filesModified = <<>>
                                 THEN "saveFeedback" ELSE "analyzeFile",
                          !.locals = << [session_id |-> generateSessionId(invocations),
                                         next |-> 1,
                                         modifications |-> <<>>] >>]
            /\ UNCHANGED <<outcome, errorLog>>
  /\ UNCHANGED <<invocations, detectStore, executionStore, feedbackStore>>
  /\ UNCHANGED <<diffVars, feedbackVars, restVars>>

\* One iteration of the loop of detectUserModifications: await
\* analyzeFileModification(file, context).  On a null file the catch block of
\* analyzeFileModification itself throws (it reads file.path).
FeedbackAnalyzeFile ==
  /\ At("collectFeedback", "analyzeFile")
  /\ LET files == call.context.filesModified
         file == files[call.locals[1].next]
     IN  IF file = NullFile THEN FeedbackThrows("TypeError")
         ELSE /\ call' = [call EXCEPT
                            !.pc = IF call.locals[1].next = Len(files)
                                   THEN "saveFeedback" ELSE "analyzeFile",
                            !.locals[1].next = @ + 1,
                            !.locals[1].modifications =
                               @ \o analyzeFileModification(file)]
              /\ UNCHANGED <<outcome, errorLog>>
  /\ UNCHANGED <<invocations, detectStore, executionStore, feedbackStore>>
  /\ UNCHANGED <<diffVars, feedbackVars, restVars>>

\* analyzeModifications and await saveFeedback(...).
FeedbackSaveFeedback ==
  /\ At("collectFeedback", "saveFeedback")
  /\ \E ok \in BOOLEAN :
       IF ok
       THEN /\ feedbackFiles' =
                 Put(feedbackFiles, call.locals[1].session_id,
                     analyzeModifications(call.locals[1].modifications))
            /\ IF call.context.userRating # <<>>
               THEN /\ call' = [call EXCEPT !.pc = "saveRating"]
                    /\ UNCHANGED <<outcome, errorLog>>
               ELSE Settle("collectFeedback", Resolved(Allow), {})
       ELSE FeedbackThrows("write failed") /\ UNCHANGED feedbackFiles
  /\ UNCHANGED <<invocations, detectStore, executionStore, ratingFiles>>
  /\ UNCHANGED <<diffVars, feedbackVars, restVars>>

\* await saveUserRating(...), then return { allow: true }.
FeedbackSaveRating ==
  /\ At("collectFeedback", "saveRating")
  /\ \E ok \in BOOLEAN :
       IF ok
       THEN /\ ratingFiles' = Put(ratingFiles, call.locals[1].session_id,
                                  call.context.userRating[1])
            /\ Settle("collectFeedback", Resolved(Allow), {})
       ELSE FeedbackThrows("write failed") /\ UNCHANGED ratingFiles
  /\ UNCHANGED <<invocations, detectStore, executionStore, feedbackFiles>>
  /\ UNCHANGED <<diffVars, feedbackVars, restVars>>

\* ------------------------------------------------- specification of the hooks
\* The hooks are invoked one after the other, each with any context, and every
\* file-system call and the evaluator may fail.
InitHooks ==
  /\ call = Idle /\ outcome = <<>> /\ errorLog = {} /\ invocations = 0
  /\ modificationCache = <<>> /\ historyFiles = EmptyMap
  /\ modificationFiles = EmptyMap
  /\ executionFiles = EmptyMap /\ executionIndex = <<>> /\ tempEvalFile = <<>>
  /\ feedbackFiles = EmptyMap /\ ratingFiles = EmptyMap
  /\ DiffIdle
  /\ FeedbackIdle
  /\ RestIdle

NextHooks ==
  \/ DetectStart \/ DetectEnsureDirectories \/ DetectLoadHistory
  \/ DetectWriteRecord \/ DetectWriteHistory
  \/ RecordStart \/ RecordEvaluatorReturns \/ RecordSave
  \/ FeedbackStart \/ FeedbackEnsureDirectories \/ FeedbackAnalyzeFile
  \/ FeedbackSaveFeedback \/ FeedbackSaveRating

SpecHooks == InitHooks /\ [][NextHooks]_vars

\* ------------------------------------- overlapping detectModifications calls
\* detectModifications is an async function: a second invocation may start, and
\* run to any of its awaits, while the first waits at one of its own.  The
\* invocations are for distinct files and share modificationCache and the
\* directories.  overlap[i] is invocation i: its context, its position (pc), its
\* locals, and failed (the catch block of lines 56-59 ran).
Slots == 1..MaxOverlap
OverlapFile(i) == "f" \o ToString(i)

\* What an earlier, finished invocation left for a file: a history of one entry,
\* in the cache and in the history file.
WarmHistory(filePath) ==
  LET context == [filePath |-> filePath, generatedBySkill |-> "frontend-design",
                  sessionId |-> << ContextSession(1) >>, userAction |-> "edit",
                  previousContent |-> <<>>, newContent |-> <<"a">>]
  IN  PushHistory(<<>>, recordModification(context, <<>>, 0), <<"a">>)

\* The cache after earlier invocations: file f1 (when tracked before) is its
\* oldest entry, followed by n other files.
OtherFile(k) == "g" \o ToString(k)
WarmCache(firstTracked, n) ==
  (IF firstTracked
   THEN << [key |-> OverlapFile(1), history |-> WarmHistory(OverlapFile(1))] >>
   ELSE <<>>)
  \o [k \in 1..n |-> [key |-> OtherFile(k), history |-> WarmHistory(OtherFile(k))]]
WarmSizes == {0, MAX_CACHE_SIZE - 2, MAX_CACHE_SIZE - 1}

OverlapAt(i, pc) == overlap[i].pc = pc
OverlapFails(i) ==
  overlap' = [overlap EXCEPT ![i].pc = "done", ![i].failed = TRUE]

InitOverlap ==
  /\ \E contents \in [Slots -> EditContents] :
       overlap =
         [i \in Slots |->
            [context |-> [shape |-> "object", filePath |-> OverlapFile(i),
                          generatedBySkill |-> "frontend-design",
                          sessionId |-> << ContextSession(1) >>,
                          userAction |-> "edit", previousContent |-> <<>>,
                          newContent |-> contents[i]],
             pc |-> "ensureDirectories", locals |-> <<>>, failed |-> FALSE]]
  /\ \E firstTracked \in BOOLEAN, n \in WarmSizes :
       /\ modificationCache = WarmCache(firstTracked, n)
       /\ historyFiles =
            [f \in {WarmCache(firstTracked, n)[k].key :
                       k \in 1..Len(WarmCache(firstTracked, n))} |-> WarmHistory(f)]
  /\ modificationFiles = EmptyMap
  /\ call = Idle /\ outcome = <<>> /\ errorLog = {} /\ invocations = 0
  /\ executionFiles = <<>> /\ executionIndex = <<>> /\ tempEvalFile = <<>>
  /\ feedbackFiles = <<>> /\ ratingFiles = <<>>
  /\ ComparisonIdle
  /\ OptimizerIdle
  /\ LearnIdle
  /\ DiffIdle
  /\ FeedbackIdle

\* The rest of recordModification of invocation i once the history is in the
\* cache, and analyzeModificationType: up to the first write of saveModification.
OverlapRecordAndAnalyze(i, cache) ==
  LET context == overlap[i].context
      history == CacheGet(cache, context.filePath)
      m == recordModification(context, history, i)
  IN  /\ modificationCache' =
           CacheSet(cache, context.filePath,
                    PushHistory(history, m, context.newContent))
      /\ overlap' = [overlap EXCEPT
                       ![i].pc = "writeRecord",
                       ![i].locals = << [modification |-> m,
                                         analysis |-> analyzeModificationType(m)] >>]

OverlapEnsureDirectories ==
  /\ \E i \in Slots, ok \in BOOLEAN :
       /\ OverlapAt(i, "ensureDirectories")
       /\ IF ~ok THEN OverlapFails(i) /\ UNCHANGED modificationCache
          ELSE IF CacheHas(modificationCache, overlap[i].context.filePath)
          THEN OverlapRecordAndAnalyze(i, modificationCache)
          ELSE /\ overlap' = [overlap EXCEPT ![i].pc = "loadHistory"]
               /\ UNCHANGED modificationCache
  /\ UNCHANGED <<historyFiles, modificationFiles, callVars, executionStore,
                 feedbackStore, comparison, optimizerVars, learnVars, diffVars, feedbackVars>>

OverlapLoadHistory ==
  /\ \E i \in Slots, readable \in BOOLEAN :
       /\ OverlapAt(i, "loadHistory")
       /\ OverlapRecordAndAnalyze(
            i, CacheSet(modificationCache, overlap[i].context.filePath,
                        loadModificationHistory(overlap[i].context.filePath,
                                                readable)))
  /\ UNCHANGED <<historyFiles, modificationFiles, callVars, executionStore,
                 feedbackStore, comparison, optimizerVars, learnVars, diffVars, feedbackVars>>

OverlapWriteRecord ==
  /\ \E i \in Slots, ok \in BOOLEAN :
       /\ OverlapAt(i, "writeRecord")
       /\ IF ok
          THEN /\ modificationFiles' =
                    Put(modificationFiles, overlap[i].locals[1].modification.id,
                        [modification |-> overlap[i].locals[1].modification,
                         analysis |-> overlap[i].locals[1].analysis])
               /\ overlap' = [overlap EXCEPT ![i].pc = "writeHistory"]
          ELSE OverlapFails(i) /\ UNCHANGED modificationFiles
  /\ UNCHANGED <<modificationCache, historyFiles, callVars, executionStore,
                 feedbackStore, comparison, optimizerVars, learnVars, diffVars, feedbackVars>>

OverlapWriteHistory ==
  /\ \E i \in Slots, ok \in BOOLEAN :
       /\ OverlapAt(i, "writeHistory")
       /\ IF ok
          THEN /\ historyFiles' =
                    Put(historyFiles, overlap[i].context.filePath,
                        IF CacheHas(modificationCache, overlap[i].context.filePath)
                        THEN CacheGet(modificationCache, overlap[i].context.filePath)
                        ELSE <<>>)
               /\ modificationCache' = cleanupCache(modificationCache)
               /\ overlap' = [overlap EXCEPT ![i].pc = "done"]
          ELSE OverlapFails(i) /\ UNCHANGED <<historyFiles, modificationCache>>
  /\ UNCHANGED <<modificationFiles, callVars, executionStore, feedbackStore,
                 comparison, optimizerVars, learnVars, diffVars, feedbackVars>>

NextOverlap ==
  \/ OverlapEnsureDirectories \/ OverlapLoadHistory
  \/ OverlapWriteRecord \/ OverlapWriteHistory

SpecOverlap == InitOverlap /\ [][NextOverlap]_vars

\* --------------------------------- edits of files that were edited before
\* detectModifications invoked one call at a time, starting from what earlier
\* invocations left behind: file f1 was edited len times (its k-th edit set the
\* content WarmContent(k)), its history is in its history file and, unless the
\* process restarted or the entry was evicted, in the cache (as the oldest
\* entry); others other files were edited once each and are cached.
WarmContent(k) ==
  IF k = 0 THEN <<>> ELSE IF k % 2 = 1 THEN <<"a">> ELSE <<"a", NL, "b">>
WarmEntry(k) ==
  LET context == [filePath |-> "f1", generatedBySkill |-> "frontend-design",
                  sessionId |-> << ContextSession(1) >>, userAction |-> "edit",
                  previousContent |-> WarmContent(k - 1),
                  newContent |-> WarmContent(k)]
  IN  [content |-> WarmContent(k), diff |-> recordModification(context, <<>>, 0).diff]
\* The history after n edits: the last MaxHistory of them.
LongHistory(n) ==
  [j \in 1..Min(n, MaxHistory) |-> WarmEntry(j + Max(0, n - MaxHistory))]
WarmShapes ==
  { [len |-> MaxHistory - 1, cached |-> TRUE, others |-> 0],
    [len |-> MaxHistory + 1, cached |-> TRUE, others |-> 0],
    [len |-> MaxHistory, cached |-> FALSE, others |-> 0],
    [len |-> 1, cached |-> TRUE, others |-> MAX_CACHE_SIZE - 1],
    [len |-> 0, cached |-> FALSE, others |-> MAX_CACHE_SIZE] }

InitEdits ==
  /\ \E shape \in WarmShapes :
       /\ modificationCache =
            (IF shape.cached
             THEN << [key |-> "f1", history |-> LongHistory(shape.len)] >>
             ELSE <<>>)
            \o [k \in 1..shape.others |->
                  [key |-> OtherFile(k), history |-> WarmHistory(OtherFile(k))]]
       /\ historyFiles =
            [f \in (IF shape.len > 0 THEN {"f1"} ELSE {})
                     \cup {OtherFile(k) : k \in 1..shape.others} |->
               IF f = "f1" THEN LongHistory(shape.len) ELSE WarmHistory(f)]
  /\ modificationFiles = EmptyMap
  /\ call = Idle /\ outcome = <<>> /\ errorLog = {} /\ invocations = 0
  /\ executionFiles = EmptyMap /\ executionIndex = <<>> /\ tempEvalFile = <<>>
  /\ feedbackFiles = EmptyMap /\ ratingFiles = EmptyMap
  /\ DiffIdle
  /\ FeedbackIdle
  /\ RestIdle

NextEdits ==
  \/ DetectStart \/ DetectEnsureDirectories \/ DetectLoadHistory
  \/ DetectWriteRecord \/ DetectWriteHistory

SpecEdits == InitEdits /\ [][NextEdits]_vars

\* ------------------------------------------ overlapping recordExecution
\* recordExecution is async and awaits the evaluator process (execFileAsync):
\* while invocation i waits, another PostToolUse event can start invocation j.
\* Every invocation uses the one path CONFIG.dataDir/.temp_eval_input.json
\* (tempEvalFile).  overlap[i] is invocation i: its context, its position (pc),
\* its locals (the execution data) and the stdout of its evaluator process
\* (<<>> when the process failed).  No file operation fails on its own here.
\* The evaluator's result for an input file: a function of the file it is given.
Evaluate(input) ==
  [overall |-> Min(10, 2 * Len(input.context.required_elements)), note |-> ""]

InitRecords ==
  /\ \E requests \in [Slots -> Requests] :
       overlap =
         [i \in Slots |->
            [context |-> [shape |-> "object", tool |-> "Skill",
                          skill |-> "frontend-design", request |-> requests[i]],
             pc |-> "start", locals |-> <<>>, stdout |-> <<>>]]
  /\ modificationCache = <<>> /\ historyFiles = EmptyMap
  /\ modificationFiles = EmptyMap
  /\ call = Idle /\ outcome = <<>> /\ errorLog = {} /\ invocations = 0
  /\ executionFiles = EmptyMap /\ executionIndex = <<>> /\ tempEvalFile = <<>>
  /\ feedbackFiles = EmptyMap /\ ratingFiles = EmptyMap
  /\ DiffIdle
  /\ FeedbackIdle
  /\ ComparisonIdle /\ OptimizerIdle /\ LearnIdle

\* recordExecution up to await execFileAsync: collectExecutionData and the
\* writeFileSync of the input file, which replaces whatever the path holds.
RecordsStart ==
  /\ \E i \in Slots :
       /\ OverlapAt(i, "start")
       /\ LET data == collectExecutionData(overlap[i].context, i)
          IN  /\ tempEvalFile' = << evaluationInput(data) >>
              /\ overlap' = [overlap EXCEPT ![i].pc = "evaluator",
                                            ![i].locals = << data >>]
  /\ UNCHANGED <<executionFiles, executionIndex, callVars, detectStore,
                 feedbackStore, comparison, optimizerVars, learnVars, diffVars,
                 feedbackVars>>

\* The evaluator process of invocation i opens the path it was given and
\* evaluates what it finds there; it fails when the file is not there.
RecordsEvaluatorRuns ==
  /\ \E i \in Slots :
       /\ OverlapAt(i, "evaluator")
       /\ overlap' = [overlap EXCEPT
                        ![i].pc = "evaluated",
                        ![i].stdout = IF tempEvalFile = <<>> THEN <<>>
                                      ELSE << Evaluate(tempEvalFile[1]) >>]
  /\ UNCHANGED <<executionStore, callVars, detectStore, feedbackStore,
                 comparison, optimizerVars, learnVars, diffVars, feedbackVars>>

\* The continuation after await execFileAsync: JSON.parse(stdout) and
\* unlinkSync(tempFile), which throws when the file is gone; the catch block
\* removes the file if it exists and rethrows; recordExecution then takes the
\* default scores.
RecordsEvaluatorReturns ==
  /\ \E i \in Slots :
       /\ OverlapAt(i, "evaluated")
       /\ LET stdout == overlap[i].stdout
              evaluation == [written |-> TRUE, ran |-> stdout # <<>>,
                             parses |-> stdout # <<>>, stdout |-> stdout,
                             removed |-> tempEvalFile # <<>>]
          IN  overlap' = [overlap EXCEPT
                            ![i].pc = "save",
                            ![i].locals[1].quality_scores =
                               << QualityScores(evaluateQuality(evaluation)) >>]
       /\ tempEvalFile' = <<>>
  /\ UNCHANGED <<executionFiles, executionIndex, callVars, detectStore,
                 feedbackStore, comparison, optimizerVars, learnVars, diffVars,
                 feedbackVars>>

\* saveExecutionData: the record file and the index entry (synchronous calls).
RecordsSave ==
  /\ \E i \in Slots :
       /\ OverlapAt(i, "save")
       /\ LET data == overlap[i].locals[1]
          IN  /\ executionFiles' = Put(executionFiles, data.session_id, data)
              /\ executionIndex' = PushIndex(executionIndex, data)
       /\ overlap' = [overlap EXCEPT ![i].pc = "done"]
  /\ UNCHANGED <<tempEvalFile, callVars, detectStore, feedbackStore,
                 comparison, optimizerVars, learnVars, diffVars, feedbackVars>>

NextRecords ==
  \/ RecordsStart \/ RecordsEvaluatorRuns \/ RecordsEvaluatorReturns
  \/ RecordsSave

SpecRecords == InitRecords /\ [][NextRecords]_vars

\* ========================================================= weight optimizer
\* A weight or a score is an exact decimal: [num, digits] is num / 10^digits,
\* kept without trailing zeros.
RECURSIVE Pow10(_)
Pow10(n) == IF n = 0 THEN 1 ELSE 10 * Pow10(n - 1)
RECURSIVE Norm(_)
Norm(x) ==
  IF x.digits > 0 /\ x.num % 10 = 0
  THEN Norm([num |-> x.num \div 10, digits |-> x.digits - 1])
  ELSE x
Dec(num, digits) == Norm([num |-> num, digits |-> digits])
Scaled(x, digits) == x.num * Pow10(digits - x.digits)
DecAdd(x, y) ==
  LET digits == Max(x.digits, y.digits)
  IN  Dec(Scaled(x, digits) + Scaled(y, digits), digits)
DecMul(x, y) == Dec(x.num * y.num, x.digits + y.digits)
DecLeq(x, y) ==
  LET digits == Max(x.digits, y.digits)
  IN  Scaled(x, digits) <= Scaled(y, digits)
DecLt(x, y) == DecLeq(x, y) /\ x # y
Zero == Dec(0, 0)
One == Dec(1, 0)

\* optimize_element_weights: the weighted combination of the three scores.
RawWeight(usage_score, quality_score, feedback_score) ==
  DecAdd(DecAdd(DecMul(usage_score, Dec(4, 1)), DecMul(quality_score, Dec(4, 1))),
         DecMul(feedback_score, Dec(2, 1)))

\* (mutant of SmoothedWeight) the previous weight taken whole: weight +
\* new_weight * 0.3.
SmoothedWeightUnscaled(weight, new_weight) ==
  DecAdd(weight, DecMul(new_weight, Dec(3, 1)))

\* optimize_element_weights: the smoothed update, weight * 0.7 + new_weight * 0.3.
SmoothedWeight(weight, new_weight) ==
  DecAdd(DecMul(weight, Dec(7, 1)), DecMul(new_weight, Dec(3, 1)))

\* apply_time_decay: exp(-days_since_last_use / 100) to two decimals, for the
\* numbers of days in Days.
Days == {10, 31, 90}
DecayFactor(days_since_last_use) ==
  IF days_since_last_use = 10 THEN Dec(90, 2)
  ELSE IF days_since_last_use = 31 THEN Dec(73, 2)
  ELSE Dec(41, 2)

\* (mutant of DecayedWeight) the sign of the exponent lost: exp(+days / 100),
\* the reciprocal factor to two decimals.
DecayedWeightGrowing(weight, days_since_last_use) ==
  IF days_since_last_use > 30
  THEN DecMul(weight, IF days_since_last_use = 31 THEN Dec(136, 2) ELSE Dec(246, 2))
  ELSE weight

\* apply_time_decay: the weight of one element after the call.
DecayedWeight(weight, days_since_last_use) ==
  IF days_since_last_use > 30
  THEN DecMul(weight, DecayFactor(days_since_last_use))
  ELSE weight

\* The elements of the database, and the scores <<usage, quality, feedback>> that
\* calculate_usage_score, calculate_quality_score and calculate_feedback_score
\* may return: each in [0,1]; the usage score of an element that is absent from
\* the window is 0.
Elements == {"button", "card"}
ElementOrder == <<"button", "card">>
ScoreTriples ==
  { <<Zero, Zero, Zero>>, <<One, One, One>>, <<Dec(5, 1), One, Zero>> }
ScoresOf(element, window) ==
  IF element \in window THEN ScoreTriples
  ELSE {t \in ScoreTriples : t[1] = Zero}

\* The table written when a pass commits: the whole working copy, under the next
\* version.
\* (mutant of PersistTable) only the first element of the working copy written.
PersistTableTorn(table, working) ==
  [version |-> table.version + 1,
   weights |-> [e \in Elements |->
                  IF e = ElementOrder[1] THEN working[e] ELSE table.weights[e]]]

PersistTable(table, working) ==
  [version |-> table.version + 1, weights |-> working]

InitOptimizer ==
  /\ \E weight \in {Zero, Dec(8, 1)} :
       weightTable = [version |-> 0,
                      weights |-> [e \in Elements |->
                                     IF e = "button" THEN weight ELSE One]]
  /\ pass = <<>>
  /\ ComparisonIdle
  /\ OverlapIdle
  /\ LearnIdle
  /\ DiffIdle
  /\ FeedbackIdle
  /\ HooksIdle

Running == pass # <<>> /\ pass[1].status = "running"

\* A pass begins: it reads the persisted table into its working copy.  kind is
\* the function it runs, window the elements that usage_stats has records of.
PassBegin ==
  /\ ~Running
  /\ weightTable.version < MaxPasses
  /\ \E kind \in {"optimize_element_weights", "apply_time_decay"},
        window \in SUBSET Elements :
       pass' = << [kind |-> kind, window |-> window, status |-> "running",
                   base |-> weightTable.weights, working |-> weightTable.weights,
                   next |-> 1, updated |-> {},
                   inputs |-> [e \in Elements |-> <<>>], plan |-> <<>>] >>
  /\ UNCHANGED <<weightTable, comparison, overlap, learnVars, diffVars, feedbackVars, hookVars>>

\* The scheduler runs the pass that has just committed once more: the same
\* function on the same usage_stats, no record having arrived in between, so the
\* score functions and the days since the last use return what they returned in
\* the first run (plan).
PassRepeat ==
  /\ pass # <<>> /\ pass[1].status = "committed"
  /\ weightTable.version < MaxPasses
  /\ pass' = << [kind |-> pass[1].kind, window |-> pass[1].window,
                 status |-> "running",
                 base |-> weightTable.weights, working |-> weightTable.weights,
                 next |-> 1, updated |-> {},
                 inputs |-> [e \in Elements |-> <<>>],
                 plan |-> << pass[1].inputs >>] >>
  /\ UNCHANGED <<weightTable, comparison, overlap, learnVars, diffVars, feedbackVars, hookVars>>

\* What the score functions (or the clock) return for element in this run.
InputsFor(element, fresh) ==
  IF pass[1].plan = <<>> THEN fresh ELSE {pass[1].plan[1][element][1]}

\* One iteration of the loop of optimize_element_weights; a score function may
\* raise, which ends the pass.
PassOptimizeElement ==
  /\ Running
  /\ pass[1].kind = "optimize_element_weights"
  /\ pass[1].next <= Len(ElementOrder)
  /\ LET element == ElementOrder[pass[1].next]
     IN  \/ \E scores \in InputsFor(element, ScoresOf(element, pass[1].window)) :
              pass' = << [pass[1] EXCEPT
                            !.working[element] =
                               SmoothedWeight(@, RawWeight(scores[1], scores[2],
                                                           scores[3])),
                            !.updated = @ \cup {element},
                            !.inputs[element] = << scores >>,
                            !.next = @ + 1] >>
         \/ pass' = << [pass[1] EXCEPT !.status = "failed"] >>
  /\ UNCHANGED <<weightTable, comparison, overlap, learnVars, diffVars, feedbackVars, hookVars>>

\* One iteration of the loop of apply_time_decay.
PassDecayElement ==
  /\ Running
  /\ pass[1].kind = "apply_time_decay"
  /\ pass[1].next <= Len(ElementOrder)
  /\ LET element == ElementOrder[pass[1].next]
     IN  \E days_since_last_use \in InputsFor(element, Days) :
           pass' = << [pass[1] EXCEPT
                         !.working[element] = DecayedWeight(@, days_since_last_use),
                         !.inputs[element] = << days_since_last_use >>,
                         !.updated = @ \cup (IF days_since_last_use > 30
                                             THEN {element} ELSE {}),
                         !.next = @ + 1] >>
  /\ UNCHANGED <<weightTable, comparison, overlap, learnVars, diffVars, feedbackVars, hookVars>>

\* The end of a pass: the table is replaced as a whole, or the write fails and
\* the pass is abandoned.
PassCommit ==
  /\ Running
  /\ pass[1].next > Len(ElementOrder)
  /\ \E ok \in BOOLEAN :
       IF ok
       THEN /\ weightTable' = PersistTable(weightTable, pass[1].working)
            /\ pass' = << [pass[1] EXCEPT !.status = "committed"] >>
       ELSE /\ pass' = << [pass[1] EXCEPT !.status = "failed"] >>
            /\ UNCHANGED weightTable
  /\ UNCHANGED <<comparison, overlap, learnVars, diffVars, feedbackVars, hookVars>>

NextOptimizer ==
  PassBegin \/ PassRepeat \/ PassOptimizeElement \/ PassDecayElement \/ PassCommit

SpecOptimizer == InitOptimizer /\ [][NextOptimizer]_vars

\* ============================================================ pattern miner
\* mine_frequent_combinations hands the element sets of the usage history (the
\* transactions) and a min_support to apriori: level-wise frequent-itemset
\* mining.  A support is the fraction [num, den]: num of the den transactions
\* contain the itemset.
Items == {"a", "b", "x"}
ItemOrder == <<"a", "b", "x">>
Rank(item) == CHOOSE k \in 1..Len(ItemOrder) : ItemOrder[k] = item
Frac(num, den) == [num |-> num, den |-> den]
MinSupports == {Frac(3, 10), Frac(4, 10), Frac(1, 2), Frac(2, 3), Frac(1, 1)}
TransactionLists == SeqsUpTo(SUBSET Items, MaxTransactions) \ {<<>>}

\* The number of the transactions k, k+1, ... that contain itemset.
RECURSIVE CountContaining(_, _, _)
CountContaining(transactions, itemset, k) ==
  IF k > Len(transactions) THEN 0
  ELSE (IF itemset \subseteq transactions[k] THEN 1 ELSE 0)
       + CountContaining(transactions, itemset, k + 1)

support(transactions, itemset) ==
  Frac(CountContaining(transactions, itemset, 1), Len(transactions))

\* (mutant of ReachesSupport) the threshold compared with > instead of >=.
ExceedsSupport(s, min_support) == s.num * min_support.den > min_support.num * s.den

\* support >= min_support, on fractions.
ReachesSupport(s, min_support) == s.num * min_support.den >= min_support.num * s.den

\* The candidates that survive the pruning, each with its support.
Prune(transactions, candidates, min_support) ==
  {[items |-> c, support |-> support(transactions, c)] :
     c \in {d \in candidates : ReachesSupport(support(transactions, d), min_support)}}

\* The (k+1)-itemsets made by joining two k-itemsets that share their first k-1
\* items.
LastItem(itemset) == CHOOSE i \in itemset : \A j \in itemset : Rank(j) <= Rank(i)
Prefix(itemset) == itemset \ {LastItem(itemset)}
Join(survivors) ==
  {A \cup B : <<A, B>> \in {ab \in survivors \X survivors :
                              ab[1] # ab[2] /\ Prefix(ab[1]) = Prefix(ab[2])}}

InitMiner ==
  /\ \E transactions \in TransactionLists, min_support \in MinSupports :
       miner = [transactions |-> transactions, min_support |-> min_support,
                level |-> 0, survivors |-> {}, frequent |-> {}, status |-> "mining"]
  /\ transfer = <<>>
  /\ ComparisonIdle
  /\ OverlapIdle
  /\ OptimizerIdle
  /\ DiffIdle
  /\ FeedbackIdle
  /\ HooksIdle

\* Level 1: the 1-itemsets of the items that occur, pruned.
MineItems ==
  /\ miner.status = "mining" /\ miner.level = 0
  /\ LET T == miner.transactions
         kept == Prune(T, {{i} : i \in UNION {T[k] : k \in 1..Len(T)}},
                       miner.min_support)
     IN  miner' = [miner EXCEPT !.level = 1,
                                !.survivors = {r.items : r \in kept},
                                !.frequent = kept]
  /\ UNCHANGED <<transfer, comparison, overlap, optimizerVars, diffVars,
                 feedbackVars, hookVars>>

\* Level k+1: the joins of the surviving k-itemsets, pruned.
MineExtend ==
  /\ miner.status = "mining" /\ miner.level >= 1 /\ miner.survivors # {}
  /\ LET kept == Prune(miner.transactions, Join(miner.survivors), miner.min_support)
     IN  miner' = [miner EXCEPT !.level = @ + 1,
                                !.survivors = {r.items : r \in kept},
                                !.frequent = @ \cup kept]
  /\ UNCHANGED <<transfer, comparison, overlap, optimizerVars, diffVars,
                 feedbackVars, hookVars>>

\* No itemset survived the last level: the frequent itemsets are returned.
MineReturn ==
  /\ miner.status = "mining" /\ miner.level >= 1 /\ miner.survivors = {}
  /\ miner' = [miner EXCEPT !.status = "done"]
  /\ UNCHANGED <<transfer, comparison, overlap, optimizerVars, diffVars,
                 feedbackVars, hookVars>>

NextMiner == MineItems \/ MineExtend \/ MineReturn

SpecMiner == InitMiner /\ [][NextMiner]_vars

\* ===================================================== transfer recommender
\* transfer_knowledge(source_domain, target_domain).  A similarity is held in
\* hundredths.  A success pattern of the source carries what
\* is_transferable(pattern, target_domain) returns for it.
SimilarityThreshold == 70
Similarities == {50, 70, 90}
SuccessPatterns ==
  {[id |-> 1, transferable |-> TRUE], [id |-> 2, transferable |-> TRUE],
   [id |-> 3, transferable |-> FALSE]}
is_transferable(pattern) == pattern.transferable
adapt_pattern(pattern) == [id |-> pattern.id, adapted |-> TRUE]

InitTransfer ==
  /\ \E similarity \in Similarities,
        success_patterns \in SeqsUpTo(SuccessPatterns, MaxPatterns) :
       transfer = [similarity |-> similarity, success_patterns |-> success_patterns,
                   next |-> 1, transferable_patterns |-> <<>>, applied |-> 0,
                   target_patterns |-> <<>>, status |-> "collecting"]
  /\ miner = <<>>
  /\ ComparisonIdle
  /\ OverlapIdle
  /\ OptimizerIdle
  /\ DiffIdle
  /\ FeedbackIdle
  /\ HooksIdle

\* One iteration of the first loop: a transferable pattern is adapted and kept.
TransferCollect ==
  /\ transfer.status = "collecting"
  /\ transfer.next <= Len(transfer.success_patterns)
  /\ LET pattern == transfer.success_patterns[transfer.next]
     IN  transfer' = [transfer EXCEPT
                        !.next = @ + 1,
                        !.transferable_patterns =
                           IF is_transferable(pattern)
                           THEN Append(@, adapt_pattern(pattern)) ELSE @]
  /\ UNCHANGED <<miner, comparison, overlap, optimizerVars, diffVars, feedbackVars,
                 hookVars>>

\* One iteration of the second loop: target_domain['patterns'].append(pattern).
TransferApply ==
  /\ \/ transfer.status = "applying"
     \/ /\ transfer.status = "collecting"
        /\ transfer.next > Len(transfer.success_patterns)
  /\ transfer.applied < Len(transfer.transferable_patterns)
  /\ transfer' = [transfer EXCEPT
                    !.status = "applying",
                    !.applied = @ + 1,
                    !.target_patterns =
                       Append(@, transfer.transferable_patterns[transfer.applied + 1])]
  /\ UNCHANGED <<miner, comparison, overlap, optimizerVars, diffVars, feedbackVars,
                 hookVars>>

\* return transferable_patterns
TransferReturn ==
  /\ \/ transfer.status = "applying"
     \/ /\ transfer.status = "collecting"
        /\ transfer.next > Len(transfer.success_patterns)
  /\ transfer.applied = Len(transfer.transferable_patterns)
  /\ transfer' = [transfer EXCEPT !.status = "done"]
  /\ UNCHANGED <<miner, comparison, overlap, optimizerVars, diffVars, feedbackVars,
                 hookVars>>

NextTransfer == TransferCollect \/ TransferApply \/ TransferReturn

SpecTransfer == InitTransfer /\ [][NextTransfer]_vars

\* ======================================================== claims on the hooks
\* C15: the ModificationRecord and FeedbackRecord collections are append-only.
\* No step removes or changes a record written earlier; every record is filed
\* under the id of the invocation that wrote it, so an invocation adds at most
\* one; and an invocation that succeeds (detectModifications on a tracked file,
\* collectFeedback on a session end) has added its record.
Succeeds(hook) ==
  call # Idle /\ call.hook = hook /\ call' = Idle /\ outcome'[1].logged = {}
C15_AppendOnly ==
  [][/\ \A id \in DOMAIN modificationFiles :
          id \in DOMAIN modificationFiles'
          /\ modificationFiles'[id] = modificationFiles[id]
     /\ \A id \in DOMAIN feedbackFiles :
          id \in DOMAIN feedbackFiles' /\ feedbackFiles'[id] = feedbackFiles[id]
     /\ \A id \in DOMAIN modificationFiles' :
          id \in 1..invocations' /\ modificationFiles'[id].modification.id = id
     /\ \A id \in DOMAIN feedbackFiles' :
          id.source = "generated" /\ id.n \in 1..invocations'
     /\ (Succeeds("detectModifications") /\ call.context.generatedBySkill # "") =>
          /\ invocations \in DOMAIN modificationFiles'
          /\ modificationFiles'[invocations].modification.file_path
               = call.context.filePath
     /\ Succeeds("collectFeedback") =>
          /\ generateSessionId(invocations) \in DOMAIN feedbackFiles'
          /\ feedbackFiles'[generateSessionId(invocations)]
               = analyzeModifications(call.locals[1].modifications)
    ]_vars

\* C15 witness: a tracked edit and then a session end have both succeeded; the
\* ModificationRecord of the edit is still in place beside the new
\* FeedbackRecord.
C15_Witness ==
  /\ call = Idle /\ invocations = 2
  /\ outcome # <<>> /\ outcome[1].hook = "collectFeedback"
  /\ outcome[1].logged = {}
  /\ DOMAIN modificationFiles = {1}
  /\ DOMAIN feedbackFiles = {generateSessionId(2)}

\* C24: untracked events leave the stored data unchanged.  No step of a
\* detectModifications invocation for a file that no skill generated changes the
\* modification records, the modification cache or a history file; a
\* recordExecution invocation for a tool other than 'Skill' (the invocation that
\* returns at once, nothing logged) changes neither the execution records nor
\* the execution index.
UntrackedEdit(c) ==
  c # Idle /\ c.hook = "detectModifications" /\ c.context.shape = "object"
    /\ c.context.generatedBySkill = ""
OtherToolReturns ==
  /\ call = Idle /\ call' = Idle /\ invocations' = invocations + 1
  /\ outcome'[1].hook = "recordExecution" /\ outcome'[1].logged = {}
C24_UntrackedNoChange ==
  [][/\ (UntrackedEdit(call) \/ UntrackedEdit(call')) =>
          /\ modificationFiles' = modificationFiles
          /\ modificationCache' = modificationCache
          /\ historyFiles' = historyFiles
     /\ OtherToolReturns =>
          /\ executionFiles' = executionFiles
          /\ executionIndex' = executionIndex
          /\ tempEvalFile' = tempEvalFile
    ]_vars

\* C24 witness: after a tracked edit that was saved, an edit of an untracked file
\* has gone through without error: the first record, the history file and the
\* cache entry of the tracked file are all there is.
C24_Witness ==
  /\ call = Idle /\ invocations = 2
  /\ outcome # <<>> /\ outcome[1].hook = "detectModifications"
  /\ outcome[1].logged = {} /\ errorLog = {}
  /\ DOMAIN modificationFiles = {1}
  /\ Len(modificationCache) = 1
  /\ DOMAIN historyFiles = {modificationCache[1].key}

\* What C25 to C27 speak of.  RecordsEdit: the step in which recordModification
\* builds the record of the edit in flight (it then waits to write it).
RecordsEdit ==
  /\ call # Idle /\ call.hook = "detectModifications"
  /\ call.pc \in {"ensureDirectories", "loadHistory"}
  /\ call' # Idle /\ call'.pc = "writeRecord"
EditedFile == call.context.filePath
NewRecord == call'.locals[1].modification
NewEntry == [content |-> call.context.newContent, diff |-> NewRecord.diff]
Cached(file) == CacheHas(modificationCache, file)
Persisted(file) == IF file \in DOMAIN historyFiles THEN historyFiles[file] ELSE <<>>
\* The recorded history of a file: what the cache holds for it or, for a file
\* that is not in the cache, what its history file holds.
RecordedHistory(file) ==
  IF Cached(file) THEN CacheGet(modificationCache, file) ELSE Persisted(file)
\* The record was diffed against the text base.
DiffedAgainst(base) ==
  /\ NewRecord.content_snapshot.before_length = Len(base)
  /\ NewRecord.content_snapshot.before_lines = LineCount(base)
  /\ NewRecord.content_snapshot.after_lines = LineCount(call.context.newContent)
LastOf(history) == history[Len(history)]
\* The last MaxHistory entries of history followed by entry.
Continued(history, entry) ==
  LET all == history \o << entry >>
  IN  [j \in 1..Min(Len(all), MaxHistory) |-> all[j + Max(0, Len(all) - MaxHistory)]]

\* C25 as originally stated: when the edits are processed one at a time and each
\* completes successfully, every record is diffed against the new content of the
\* preceding recorded edit of the same file (also across evictions and reloads),
\* and against the event's previousContent only when the file has no recorded
\* history.
C25_DiffedAgainstPreceding ==
  [][(RecordsEdit /\ errorLog = {}) =>
       IF RecordedHistory(EditedFile) # <<>>
       THEN DiffedAgainst(LastOf(RecordedHistory(EditedFile)).content)
       ELSE DiffedAgainst(call.context.previousContent)
    ]_vars

\* C25 amended: ..., and against the event's previousContent only when the file
\* has no recorded history or its history file could not be loaded, in which case
\* the history of the file restarts with this edit.
C25_DiffedAgainstLoaded ==
  [][(RecordsEdit /\ errorLog = {}) =>
       IF RecordedHistory(EditedFile) = <<>>
       THEN DiffedAgainst(call.context.previousContent)
       ELSE IF Cached(EditedFile)
       THEN DiffedAgainst(LastOf(RecordedHistory(EditedFile)).content)
       ELSE \/ /\ DiffedAgainst(LastOf(Persisted(EditedFile)).content)
               /\ CacheGet(modificationCache', EditedFile) =
                    Continued(Persisted(EditedFile), NewEntry)
            \/ /\ DiffedAgainst(call.context.previousContent)
               /\ CacheGet(modificationCache', EditedFile) = << NewEntry >>
    ]_vars

\* C25 witness: f1 was evicted by a successful edit of another file, and its next
\* edit, the second of f1, is diffed against its first (one character, one line),
\* reloaded from the history file.
C25_Witness ==
  /\ call # Idle /\ call.hook = "detectModifications" /\ call.pc = "writeRecord"
  /\ invocations = 2 /\ errorLog = {}
  /\ call.context.filePath = "f1"
  /\ Len(modificationCache) = MAX_CACHE_SIZE + 1
  /\ LastOf(modificationCache).key = "f1"
  /\ Len(LastOf(modificationCache).history) = 2
  /\ call.locals[1].modification.content_snapshot.before_length = 1
  /\ call.locals[1].modification.content_snapshot.after_length = 3

\* C26: after every detectModifications invocation has completed, whether it
\* succeeded or failed, the cache holds the histories of at most MAX_CACHE_SIZE
\* files; the entries evicted are the oldest-inserted ones, never the file just
\* edited.
C26_CacheBounded ==
  [][(call # Idle /\ call.hook = "detectModifications" /\ call' = Idle) =>
       /\ Len(modificationCache') <= MAX_CACHE_SIZE
       /\ \A k \in 1..Len(modificationCache) :
            CacheHas(modificationCache', modificationCache[k].key) =>
              \A j \in k..Len(modificationCache) :
                CacheHas(modificationCache', modificationCache[j].key)
       /\ (call.context.shape = "object" /\ Cached(call.context.filePath)) =>
            CacheHas(modificationCache', call.context.filePath)
    ]_vars

\* C27 as originally stated: after every recorded edit the cached history of the
\* file, and the history file once saveModification has written it, hold at most
\* 50 entries: the most recent recorded edits of the file in chronological order,
\* the last one being the edit just recorded.
HistoriesBounded ==
  /\ \A k \in 1..Len(modificationCache') :
       Len(modificationCache'[k].history) <= MaxHistory
  /\ \A f \in DOMAIN historyFiles' : Len(historyFiles'[f]) <= MaxHistory
WritesHistory ==
  /\ call # Idle /\ call.hook = "detectModifications" /\ call.pc = "writeHistory"
  /\ historyFiles' # historyFiles
C27_MostRecentEdits ==
  [][/\ HistoriesBounded
     /\ RecordsEdit =>
          CacheGet(modificationCache', EditedFile) =
            Continued(RecordedHistory(EditedFile), NewEntry)
     /\ WritesHistory =>
          /\ historyFiles'[EditedFile] = CacheGet(modificationCache, EditedFile)
          /\ LastOf(historyFiles'[EditedFile]) =
               [content |-> call.context.newContent,
                diff |-> call.locals[1].modification.diff]
    ]_vars

\* C27 amended: ... hold at most 50 entries in chronological order, the last one
\* being the edit just recorded: the most recent entries of the history the edit
\* found (the cached history or, for a file that is not cached, the history loaded
\* from its file, empty when the file is missing or cannot be read) followed by
\* that edit.
C27_ContinuesLoaded ==
  [][/\ HistoriesBounded
     /\ RecordsEdit =>
          \E found \in (IF Cached(EditedFile) THEN {RecordedHistory(EditedFile)}
                         ELSE {Persisted(EditedFile), <<>>}) :
            CacheGet(modificationCache', EditedFile) = Continued(found, NewEntry)
     /\ WritesHistory =>
          /\ historyFiles'[EditedFile] = CacheGet(modificationCache, EditedFile)
          /\ LastOf(historyFiles'[EditedFile]) =
               [content |-> call.context.newContent,
                diff |-> call.locals[1].modification.diff]
    ]_vars

\* C27 witness: the 51st edit of f1 has been saved: the cached history and the
\* history file hold 50 entries, from the 2nd edit to the one just recorded.
C27_Witness ==
  /\ call = Idle /\ invocations = 1 /\ errorLog = {}
  /\ "f1" \in DOMAIN historyFiles /\ Len(historyFiles["f1"]) = MaxHistory
  /\ historyFiles["f1"][1] = WarmEntry(2)
  /\ historyFiles["f1"][MaxHistory - 1] = WarmEntry(MaxHistory)
  /\ DOMAIN modificationFiles = {1}
  /\ modificationCache = << [key |-> "f1", history |-> historyFiles["f1"]] >>

\* C28: after any sequence of recordExecution invocations the execution index
\* holds at most 1000 entries, in save order, the entries of the most recent
\* saved executions: every execution record file that was written has its entry
\* in the index (fewer than 1000 records being saved here, none is pruned), also
\* when reading or parsing the existing index failed.
C28_IndexComplete ==
  call = Idle =>
    /\ Len(executionIndex) <= MaxIndex
    /\ \A k \in 1..(Len(executionIndex) - 1) :
         executionIndex[k].session_id < executionIndex[k + 1].session_id
    /\ {executionIndex[k].session_id : k \in 1..Len(executionIndex)} =
         DOMAIN executionFiles

\* C29: a failed quality evaluation (the evaluator cannot be run, its output is
\* not valid JSON, the input file cannot be written or removed) does not end the
\* invocation: it goes on to save, with quality_scores set to the default
\* {overall: 0.5, note}; after a successful evaluation quality_scores is exactly
\* the evaluator's result; and the save that succeeds writes the record with
\* these scores and appends its index entry.
EvaluationDone ==
  /\ call' # Idle /\ call'.hook = "recordExecution" /\ call'.pc = "save"
  /\ (call = Idle \/ call.pc = "evaluator")
C29_DefaultOnFailure ==
  [][/\ (call # Idle /\ call.hook = "recordExecution" /\ call.pc = "evaluator") =>
          EvaluationDone
     /\ EvaluationDone =>
          LET evaluation == call'.locals[2]
              succeeded == /\ evaluation.written /\ evaluation.ran
                           /\ evaluation.parses /\ evaluation.removed
          IN  call'.locals[1].quality_scores =
                IF succeeded THEN evaluation.stdout
                ELSE << [overall |-> 5, note |-> "Quality evaluation failed"] >>
     /\ (Succeeds("recordExecution") /\ call.pc = "save") =>
          LET data == call.locals[1]
          IN  /\ data.session_id \in DOMAIN executionFiles'
              /\ executionFiles'[data.session_id] = data
              /\ executionIndex' # <<>>
              /\ executionIndex'[Len(executionIndex')].session_id = data.session_id
    ]_vars

\* C29 witness: the evaluator ran and printed a result, but its input file could
\* not be removed: the record is saved with the default scores and indexed.
C29_Witness ==
  /\ call = Idle /\ invocations = 1 /\ errorLog = {}
  /\ tempEvalFile # <<>>
  /\ DOMAIN executionFiles = {1}
  /\ executionFiles[1].quality_scores =
       << [overall |-> 5, note |-> "Quality evaluation failed"] >>
  /\ Len(executionIndex) = 1 /\ executionIndex[1].session_id = 1

\* C30: when recordExecution invocations overlap, each gets the evaluator's
\* result for its own input: the input file of an invocation is neither
\* overwritten nor deleted by another one before its evaluator has read it, the
\* quality_scores it takes and saves are the evaluator's result for its own
\* execution data, and no input file remains once all have evaluated.
OwnInput(i) == evaluationInput(collectExecutionData(overlap[i].context, i))
C30_OwnEvaluation ==
  /\ \A i \in DOMAIN overlap :
       /\ overlap[i].pc = "evaluator" => tempEvalFile = << OwnInput(i) >>
       /\ overlap[i].pc \in {"save", "done"} =>
            overlap[i].locals[1].quality_scores = << Evaluate(OwnInput(i)) >>
       /\ overlap[i].pc = "done" =>
            /\ i \in DOMAIN executionFiles
            /\ executionFiles[i].quality_scores = << Evaluate(OwnInput(i)) >>
  /\ (overlap # <<>> /\ \A i \in DOMAIN overlap : overlap[i].pc \in {"save", "done"})
       => tempEvalFile = <<>>

\* C17: with anonymization enabled, no e-mail-, SSN-, card-number- or IP-shaped
\* word of the user's request appears in any field of a saved execution record
\* (detected_keywords included) or in the quality-evaluation input file.
Sensitive == SSNShaped \cup EmailShaped \cup CardShaped \cup IPShaped
WordsOf(text) == {text[k] : k \in 1..Len(text)}
C17_NoSensitiveStored ==
  /\ \A id \in DOMAIN executionFiles :
       /\ WordsOf(executionFiles[id].trigger.user_request) \cap Sensitive = {}
       /\ WordsOf(executionFiles[id].trigger.detected_keywords) \cap Sensitive = {}
  /\ tempEvalFile # <<>> =>
       WordsOf(tempEvalFile[1].context.required_elements) \cap Sensitive = {}

\* C14: when detectModifications invocations for different files overlap, each
\* invocation that finishes without error has saved its ModificationRecord and
\* persisted a history of its file that ends with its edit, as when the
\* invocations run one after the other; no history is persisted empty.
C14_IndependentFiles ==
  \A i \in Slots :
    (OverlapAt(i, "done") /\ ~overlap[i].failed) =>
      LET file == overlap[i].context.filePath
          m == overlap[i].locals[1].modification
      IN  /\ i \in DOMAIN modificationFiles
          /\ modificationFiles[i].modification = m
          /\ file \in DOMAIN historyFiles
          /\ historyFiles[file] # <<>>
          /\ historyFiles[file][Len(historyFiles[file])] =
               [content |-> overlap[i].context.newContent, diff |-> m.diff]

\* C13: the FeedbackRecord that collectFeedback saves for a session-end event is
\* keyed by that event's session_id, the id that detectModifications stores on
\* the ModificationRecords of the same session.
C13_KeyedBySession ==
  [][\A k \in (DOMAIN feedbackFiles') \ (DOMAIN feedbackFiles) :
       k = SessionOf(call.context)]_vars

\* C1: fail-open.  Whatever the context and whichever step fails, an invocation
\* of detectModifications, recordExecution or collectFeedback resolves with
\* {allow: true} and never rejects; an invocation in flight waits at one of the
\* awaits of its hook, which continues whether the awaited call succeeds or fails.
AwaitsOf(hook) ==
  IF hook = "detectModifications"
  THEN {"ensureDirectories", "loadHistory", "writeRecord", "writeHistory"}
  ELSE IF hook = "recordExecution" THEN {"evaluator", "save"}
  ELSE IF hook = "collectFeedback"
  THEN {"ensureDirectories", "analyzeFile", "saveFeedback", "saveRating"}
  ELSE {}
C1_FailOpen ==
  /\ outcome # <<>> => outcome[1].settlement = Resolved(Allow)
  /\ call # Idle => call.pc \in AwaitsOf(call.hook)

\* C1 witness: an invocation of detectModifications whose history write failed
\* has resolved with {allow: true}, after a recordExecution whose index write
\* failed; both errors were caught and logged.
C1_Witness ==
  /\ outcome # <<>>
  /\ outcome[1].hook = "detectModifications"
  /\ outcome[1].settlement = Resolved(Allow)
  /\ [hook |-> "detectModifications", error |-> "write failed"] \in errorLog
  /\ [hook |-> "recordExecution", error |-> "writeIndex"] \in errorLog
  /\ Len(modificationCache) = 1

\* ============================================= claims on the weight optimizer
InRange(weight) == DecLeq(Zero, weight) /\ DecLeq(weight, One)
\* The element whose loop iteration a step of the pass runs, and its weight in
\* the working copy before and after.
Stepped ==
  Running /\ pass[1].next <= Len(ElementOrder) /\ pass'[1].next = pass[1].next + 1
SteppedElement == ElementOrder[pass[1].next]
WeightBefore == pass[1].working[SteppedElement]
WeightAfter == pass'[1].working[SteppedElement]

\* C18: after every update of an element by the optimizer, with or without
\* decay, and after any sequence of passes, every element weight is in [0,1].
C18_WeightInRange ==
  weightTable # <<>> =>
    /\ \A e \in Elements : InRange(weightTable.weights[e])
    /\ pass # <<>> => \A e \in Elements : InRange(pass[1].working[e])

\* C18 witness: two committed passes, a smoothed update (0.8 -> 0.74) and a decay
\* (x 0.41), leave the weight 0.3034.
C18_Witness ==
  /\ weightTable # <<>> /\ weightTable.version = 2
  /\ weightTable.weights["button"] = Dec(3034, 4)
  /\ weightTable.weights["card"] = One

\* C19: time decay never increases a weight: an application of decay strictly
\* decreases the weight or leaves it at 0, and never raises a weight of 0; and
\* an element absent from the window changes only through decay.
C19_DecayOnly ==
  [][Stepped =>
       /\ pass[1].kind = "apply_time_decay" =>
            /\ DecLeq(WeightAfter, WeightBefore)
            /\ WeightBefore = Zero => WeightAfter = Zero
            /\ SteppedElement \in pass'[1].updated =>
                 \/ DecLt(WeightAfter, WeightBefore)
                 \/ WeightBefore = Zero /\ WeightAfter = Zero
       /\ (SteppedElement \notin pass[1].window /\ WeightAfter # WeightBefore) =>
            pass[1].kind = "apply_time_decay"
    ]_vars

C21_Idempotent ==
  [][(Running /\ pass[1].plan # <<>> /\ pass'[1].status = "committed") =>
       weightTable'.weights = pass[1].base]_vars

\* ================================================ claims on the pattern miner
\* The number of transactions that contain itemset, counted as a set.
Containing(itemset) ==
  Cardinality({k \in 1..Len(miner.transactions) :
                 itemset \subseteq miner.transactions[k]})

\* C22: for every non-empty list of transactions and every min_support, the
\* mining returns exactly the (non-empty) itemsets whose support, the fraction
\* of the transactions containing them, is at least min_support, each with its
\* support, which lies in (0,1].
C22_FrequentItemsets ==
  (miner # <<>> /\ miner.status = "done") =>
    LET n == Len(miner.transactions)
        ms == miner.min_support
    IN  /\ {r.items : r \in miner.frequent} =
             {S \in (SUBSET Items) \ {{}} : Containing(S) * ms.den >= ms.num * n}
        /\ \A r \in miner.frequent :
             /\ r.support = Frac(Containing(r.items), n)
             /\ r.support.num > 0 /\ r.support.num <= r.support.den

\* C22 witness: transactions [{a,x},{a,x},{b}] with min_support 0.5 keep {a},
\* {x} and {a,x} (support 2/3) and prune {b} (support 1/3).
C22_Witness ==
  /\ miner # <<>> /\ miner.status = "done"
  /\ miner.transactions = << {"a", "x"}, {"a", "x"}, {"b"} >>
  /\ miner.min_support = Frac(1, 2)
  /\ miner.frequent =
       {[items |-> S, support |-> Frac(2, 3)] : S \in {{"a"}, {"x"}, {"a", "x"}}}

\* ========================================= claims on the transfer recommender
\* C23: below the similarity threshold no source pattern is appended to the
\* target's patterns; at exactly the threshold the transferable success
\* patterns of the source are transferred.
C23_ThresholdGuards ==
  transfer # <<>> =>
    /\ transfer.similarity < SimilarityThreshold => transfer.target_patterns = <<>>
    /\ (transfer.status = "done" /\ transfer.similarity = SimilarityThreshold) =>
         transfer.target_patterns =
           SelectSeq([k \in 1..Len(transfer.success_patterns) |->
                        [id |-> transfer.success_patterns[k].id,
                         adapted |-> transfer.success_patterns[k].transferable]],
                     LAMBDA p : p.adapted)

====
